---- MODULE Spec2Model ----
(***************************************************************************)
(* Multi-factor authentication and device-trust engine of Spendlyzer:      *)
(* trusted devices (app/services/trusted_device_service.py), second-factor *)
(* verification (app/routes/two_factor_auth.py) and the login flow         *)
(* (app/routes/auth.py).  Every HTTP handler is one action; the handlers   *)
(* whose interleaving matters are split at their awaits in the *Race       *)
(* specifications.                                                         *)
(***************************************************************************)
EXTENDS Integers, Sequences, FiniteSets, TLC

VARIABLES
    now,        \* wall clock, in 30-second TOTP time steps
    devices,    \* table trusted_devices: sequence of rows, id = index
    resp,       \* the response (and audit events) of the last request
    procs,      \* in-flight requests of the interleaved specifications
    nops,       \* requests counted against the budget of a specification
    users,      \* table users: sequence of rows, id = index
    two_factor, \* table two_factor_auth: the row of each user id
    backup_codes, \* table two_factor_backup_codes: set of rows
    sessions,   \* table user_sessions: set of rows
    tokens,     \* the JWTs signed so far
    rand,       \* number of random values drawn so far
    http,       \* the HTTP response of the last request
    accepted,   \* history: the backup codes a verification has accepted
    invitations, \* table invitations: sequence of rows, id = index
    redis_client \* keys 2fa_code:{user_id}:{method} of the notification service

authvars == <<users, two_factor, backup_codes, sessions, tokens, rand, http, accepted,
              invitations, redis_client>>

vars == <<now, devices, resp, procs, nops, users, two_factor, backup_codes,
          sessions, tokens, rand, http, accepted, invitations, redis_client>>

(***************************************************************************)
(* Bounds of the model.                                                    *)
(***************************************************************************)
MaxDevRows == 6         \* rows of trusted_devices in SpecCap
MaxOtherRows == 1       \* devices issued to a user other than CapUser in SpecCap
MaxVerifyRows == 1      \* rows of trusted_devices in SpecTD
MaxCapOps == 2          \* verify / revoke operations of a run of SpecCap
MaxShortLived == 1      \* devices of a non-default lifetime in SpecCap
MaxDays == 1            \* days the clock may advance in SpecTD / SpecCap
MaxOps == 4             \* requests of a run of Spec
MaxSteps == 1           \* 30-second steps the clock may advance in Spec
MaxRows == 2            \* rows of trusted_devices the routes of Spec create
MaxCodeInputs == 1      \* backup codes of a batch that are ever presented
MaxProcs == 2           \* requests in flight together
MaxLifetimes == 1       \* code lifetimes the clock of SpecExpiry jumps over
MaxWeeks == 1           \* device lifetimes the clock of SpecRemember jumps over
MaxResetLifetimes == 1  \* reset-token lifetimes the clock of SpecReset jumps over
MaxInvitations == 2     \* rows of invitations in SpecInvite
MaxInviteLifetimes == 1 \* invitation lifetimes the clock of SpecInvite jumps over

Users == {1, 2}

(***************************************************************************)
(* Program constants.                                                      *)
(***************************************************************************)
max_devices_per_user == 5
default_expiration_days == 7
StepsPerDay == 2880     \* 30-second steps in 24 * 60 * 60 seconds

(***************************************************************************)
(* DeviceFingerprint.                                                      *)
(***************************************************************************)
UserAgents == {"chrome-win/1", "chrome-win/1+ext", "safari-ios/2"}

\* user_agents.parse: the parsed families and versions of a user agent.
\* Two user-agent strings that differ only in a token the parser ignores
\* have the same parse.
ParseUA(ua) ==
    CASE ua = "chrome-win/1"     -> [browser |-> "Chrome", os |-> "Windows", is_mobile |-> FALSE]
      [] ua = "chrome-win/1+ext" -> [browser |-> "Chrome", os |-> "Windows", is_mobile |-> FALSE]
      [] ua = "safari-ios/2"     -> [browser |-> "Safari", os |-> "iOS", is_mobile |-> TRUE]

\* SHA-256 of the serialised fingerprint data: a digest, equal for equal data.
create_device_hash(ua) == <<"sha256", ParseUA(ua)>>

\* Mutant: no fingerprint ever matches the stored one.
validate_device_fingerprint_never(stored_hash, current_hash) == FALSE

validate_device_fingerprint(stored_hash, current_hash) == stored_hash = current_hash

IPs == {"10.0.0.1", "8.8.8.8", "2.2.2.2"}
IsPrivate(ip) == ip = "10.0.0.1"
GeoDB(ip) == IF ip = "8.8.8.8" THEN "US" ELSE "FR"

\* get_location_from_ip: geo is the outcome of the external lookup.
get_location_from_ip(ip, geo) ==
    IF IsPrivate(ip) THEN "XX"
    ELSE IF geo = "ok" THEN GeoDB(ip)
    ELSE "XX"

\* extract_device_info_from_request
extract_device_info_from_request(req) ==
    [device_hash  |-> create_device_hash(req.ua),
     country_code |-> get_location_from_ip(req.ip, req.geo)]

\* The requests of the model: a browser in the US, the same browser family in
\* France, another browser, a private address, and a failed lookup.
Requests ==
    {[ua |-> "chrome-win/1",     ip |-> "8.8.8.8",  geo |-> "ok"],
     [ua |-> "chrome-win/1+ext", ip |-> "2.2.2.2",  geo |-> "ok"],
     [ua |-> "safari-ios/2",     ip |-> "8.8.8.8",  geo |-> "ok"],
     [ua |-> "chrome-win/1",     ip |-> "10.0.0.1", geo |-> "ok"],
     [ua |-> "chrome-win/1",     ip |-> "8.8.8.8",  geo |-> "fail"]}

(***************************************************************************)
(* TrustedDeviceService.                                                   *)
(***************************************************************************)
\* generate_secure_token: the n-th token generated is a fresh value; 0 is a
\* token that was never generated.
generate_secure_token(devs) == Len(devs) + 1

\* hash_token: SHA-256 of the token, a digest that is never the token itself.
hash_token(token) == <<"sha256", token>>

\* TrustedDevice.is_expired
is_expired(d, t) == t > d.expires_at

\* TrustedDevice.create_expiration_date
create_expiration_date(days, t) == t + days * StepsPerDay

DeviceIds(devs) == 1..Len(devs)

DevicesOf(devs, u) == {i \in DeviceIds(devs) : devs[i].user_id = u}

ActiveDevices(devs, u) ==
    {i \in DeviceIds(devs) : devs[i].user_id = u /\ devs[i].is_active}

AuditEvent(type, id, reason) == [event_type |-> type, device_id |-> id, reason |-> reason]

\* Mutant: the deactivation is never committed.
deactivate_device_lost(devs, id, t) == devs

\* _deactivate_device: the UPDATE that clears is_active also fires the
\* onupdate default of last_used_at.
deactivate_device(devs, id, t) ==
    IF id \in DeviceIds(devs) /\ devs[id].is_active
    THEN [devs EXCEPT ![id].is_active = FALSE, ![id].last_used_at = t]
    ELSE devs

RECURSIVE DeactivateAll(_, _, _)
DeactivateAll(devs, ids, t) ==
    IF ids = {} THEN devs
    ELSE LET i == CHOOSE x \in ids : TRUE
         IN DeactivateAll(deactivate_device(devs, i, t), ids \ {i}, t)

RECURSIVE SetToSeq(_)
SetToSeq(S) ==
    IF S = {} THEN <<>>
    ELSE LET m == CHOOSE x \in S : \A y \in S : x <= y
         IN <<m>> \o SetToSeq(S \ {m})

AuditAll(ids, reason) ==
    LET s == SetToSeq(ids)
    IN [k \in 1..Len(s) |-> AuditEvent("trusted_device_deactivated", s[k], reason)]

\* Mutant: the country check accepts every country.
validate_geographic_access_any(d, info) == TRUE

\* _validate_geographic_access
validate_geographic_access(d, info) ==
    IF d.country_code = "XX" \/ info.country_code = "XX" THEN TRUE
    ELSE d.country_code = info.country_code

\* Mutant: the query leaves out the user_id of the caller.
FindDevice_any_user(devs, u, token) ==
    LET found == {i \in DeviceIds(devs) :
                     /\ devs[i].token_hash = hash_token(token)
                     /\ devs[i].is_active}
    IN IF found = {} THEN 0 ELSE CHOOSE i \in found : \A j \in found : i <= j

\* The row the query of verify_trusted_device finds (0 when there is none).
FindDevice(devs, u, token) ==
    LET found == {i \in DeviceIds(devs) :
                     /\ devs[i].user_id = u
                     /\ devs[i].token_hash = hash_token(token)
                     /\ devs[i].is_active}
    IN IF found = {} THEN 0 ELSE CHOOSE i \in found : \A j \in found : i <= j

\* verify_trusted_device: <<device id or 0, table afterwards, audit events>>.
verify_trusted_device(devs, token, req, u, t) ==
    LET info == extract_device_info_from_request(req)
        id   == FindDevice(devs, u, token)
    IN  IF id = 0 THEN <<0, devs, <<>>>>
        ELSE IF is_expired(devs[id], t)
        THEN <<0, deactivate_device(devs, id, t),
               <<AuditEvent("trusted_device_deactivated", id, "expired")>>>>
        ELSE IF ~validate_device_fingerprint(devs[id].device_hash, info.device_hash)
        THEN <<0, deactivate_device(devs, id, t),
               <<AuditEvent("trusted_device_deactivated", id, "fingerprint_mismatch")>>>>
        ELSE IF ~validate_geographic_access(devs[id], info)
        THEN <<0, deactivate_device(devs, id, t),
               <<AuditEvent("trusted_device_deactivated", id, "geographic_restriction")>>>>
        ELSE <<id, [devs EXCEPT ![id].last_used_at = t],
               <<AuditEvent("trusted_device_used", id, "")>>>>

\* Mutant: max instead of min, the most recently used device is evicted.
OldestCandidates_max(devs, u) ==
    LET act == ActiveDevices(devs, u)
    IN {i \in act : \A j \in act : devs[i].last_used_at >= devs[j].last_used_at}

\* The devices min(active_devices, key=last_used_at) may return: the order of
\* the rows of a query without ORDER BY is not specified, so among equal
\* timestamps any row can come first.
OldestCandidates(devs, u) ==
    LET act == ActiveDevices(devs, u)
    IN {i \in act : \A j \in act : devs[i].last_used_at <= devs[j].last_used_at}

\* Mutant: the limit is compared with > instead of >=.
EvictionChoices_gt(devs, u) ==
    IF Cardinality(ActiveDevices(devs, u)) > max_devices_per_user
    THEN OldestCandidates(devs, u)
    ELSE {0}

\* _enforce_device_limit: the devices it may deactivate ({0}: none).
EvictionChoices(devs, u) ==
    IF Cardinality(ActiveDevices(devs, u)) >= max_devices_per_user
    THEN OldestCandidates(devs, u)
    ELSE {0}

enforce_device_limit(devs, u, victim, t) ==
    IF victim = 0 THEN devs ELSE deactivate_device(devs, victim, t)

ExpiredActive(devs, u, t) ==
    {i \in ActiveDevices(devs, u) : devs[i].expires_at < t}

\* _cleanup_expired_devices
cleanup_expired_devices(devs, u, t) == DeactivateAll(devs, ExpiredActive(devs, u, t), t)

\* create_trusted_device: the row it builds.
create_trusted_device(devs, u, req, days, t) ==
    LET info == extract_device_info_from_request(req)
    IN [user_id      |-> u,
        device_hash  |-> info.device_hash,
        token_hash   |-> hash_token(generate_secure_token(devs)),
        country_code |-> info.country_code,
        is_active    |-> TRUE,
        created_at   |-> t,
        expires_at   |-> create_expiration_date(days, t),
        last_used_at |-> t]

\* save_trusted_device: <<new device id, table afterwards, audit events>>.
save_trusted_device(devs, row, victim, t) ==
    LET u   == row.user_id
        d1  == enforce_device_limit(devs, u, victim, t)
        exp == ExpiredActive(d1, u, t)
        d2  == cleanup_expired_devices(d1, u, t)
        d3  == Append(d2, row)
    IN <<Len(d3), d3,
         (IF victim = 0 THEN <<>>
          ELSE <<AuditEvent("trusted_device_deactivated", victim, "device_limit_exceeded")>>)
         \o AuditAll(exp, "expired")
         \o <<AuditEvent("trusted_device_created", Len(d3), "")>>>>

\* Mutant: the revocation finds the device and leaves it active.
revoke_trusted_device_kept(devs, u, id, t) ==
    <<id \in DeviceIds(devs) /\ devs[id].user_id = u, devs, <<>>>>

\* Mutant: the query leaves out the user_id of the caller.
revoke_trusted_device_any_user(devs, u, id, t) ==
    IF id \in DeviceIds(devs)
    THEN <<TRUE, deactivate_device(devs, id, t),
           <<AuditEvent("trusted_device_deactivated", id, "user_revoked")>>>>
    ELSE <<FALSE, devs, <<>>>>

\* revoke_trusted_device: <<found, table afterwards, audit events>>.
revoke_trusted_device(devs, u, id, t) ==
    IF id \in DeviceIds(devs) /\ devs[id].user_id = u
    THEN <<TRUE, deactivate_device(devs, id, t),
           <<AuditEvent("trusted_device_deactivated", id, "user_revoked")>>>>
    ELSE <<FALSE, devs, <<>>>>

\* Mutant: the bulk revocation deactivates nothing.
revoke_all_trusted_devices_none(devs, u, t) == <<0, devs, <<>>>>

\* revoke_all_trusted_devices: <<count, table afterwards, audit events>>.
revoke_all_trusted_devices(devs, u, t) ==
    LET act == ActiveDevices(devs, u)
    IN <<Cardinality(act), DeactivateAll(devs, act, t), AuditAll(act, "bulk_revoke")>>

(***************************************************************************)
(* Responses.                                                              *)
(***************************************************************************)
\* op: the operation; user, token, info: its inputs (info is the device info
\* extracted from the request); device: the device it returns (0: none);
\* count: the count it returns; audit: the audit events it emitted.
NoInfo == [device_hash |-> <<>>, country_code |-> ""]
NoResp == [op |-> "none", user |-> 0, token |-> 0, info |-> NoInfo, device |-> 0,
           count |-> 0, audit |-> <<>>]

\* What a step records of its request: all of it, or (full = FALSE) only the
\* operation, the user and the audit events.
Respond(full, r) ==
    IF full THEN r ELSE [NoResp EXCEPT !.op = r.op, !.user = r.user, !.audit = r.audit]

\* Devices issued with another lifetime than the default one.
ShortLived(devs) ==
    {i \in DeviceIds(devs) :
        devs[i].expires_at # create_expiration_date(default_expiration_days, devs[i].created_at)}

(***************************************************************************)
(* Passwords, codes and tokens (app/routes/auth.py,                        *)
(* app/routes/two_factor_auth.py).                                         *)
(***************************************************************************)
ACCESS_TOKEN_EXPIRE_MINUTES == 60
RESET_TOKEN_EXPIRE_MINUTES == 30
PendingTokenMinutes == 5        \* expires_delta of the temporary 2FA token
TempCodeMinutes == 10           \* lifetime of an sms / email code
CodeExpiryMinutes == 5          \* lifetime of a code of the notification service
BackupCodesPerBatch == 10       \* backup codes generated at a time
StepsPerMinute == 2

\* hash_password: a bcrypt digest, never the password itself.
hash_password(password) == <<"bcrypt", password>>

\* password_hash="" of a user created by the Google callback.
NoPasswordHash == <<>>

\* verify_password
verify_password(plain_password, hashed_password) ==
    hashed_password = hash_password(plain_password)

\* The absent code, and the codes of the model: the TOTP code of a secret at
\* a time step and a random 6-digit code (both six digits), a backup code
\* (XXXX-XXXX-XXXX) and a text that is none of these.
NoCode == <<>>
TOTPCode(secret, step) == <<"totp", secret, step>>
DigitCodes == {<<"digits", 1>>, <<"digits", 2>>}
BackupCode(k) == <<"backup", k>>
JunkCode == <<"text", 0>>

\* len(code) == 6 and code.isdigit()
IsSixDigits(code) == code # NoCode /\ code[1] \in {"totp", "digits"}

\* verify without a window: the code of the current time step alone.
totp_verify_current(secret, code, t) == code = TOTPCode(secret, t)

\* pyotp.TOTP(secret).verify(code, valid_window=1)
totp_verify(secret, code, t) ==
    \E s \in (t - 1)..(t + 1) : code = TOTPCode(secret, s)

\* hashlib.sha256(code.encode()).hexdigest()
code_hash(code) == <<"sha256", code>>

\* A JWT: its claims.  NoToken is a missing or unsigned bearer token.
NoToken == [sub |-> 0, email |-> "", token_version |-> -1, temp_2fa |-> FALSE,
            reset |-> FALSE, jti |-> 0, exp |-> 0]

\* create_access_token
create_access_token(sub, email, temp_2fa, version, minutes, jti, t) ==
    [sub |-> sub, email |-> email, token_version |-> version, temp_2fa |-> temp_2fa,
     reset |-> FALSE, jti |-> jti, exp |-> t + minutes * StepsPerMinute]

\* create_reset_token: no user is passed, so no token_version is embedded.
create_reset_token(user_id, email, t) ==
    [create_access_token(user_id, email, FALSE, -1, RESET_TOKEN_EXPIRE_MINUTES, 0, t)
        EXCEPT !.reset = TRUE]

\* jwt.decode: the signature is that of a token signed here and exp is in
\* the future.
jwt_decode(toks, token, t) == token \in toks /\ t < token.exp

\* The row of a user without a two_factor_auth row.
NoTwoFactor == [exists |-> FALSE, is_enabled |-> FALSE, method |-> "authenticator",
                secret_key |-> 0, phone_number |-> "", temp_code |-> NoCode,
                temp_code_expires_at |-> 0]

Methods == {"authenticator", "sms", "email"}

\* select(UserModel).where((username == login) | (email == login)).first()
FindUser(us, login) ==
    LET found == {i \in 1..Len(us) : us[i].username = login \/ us[i].email = login}
    IN IF found = {} THEN 0 ELSE CHOOSE i \in found : \A j \in found : i <= j

\* select(TwoFactorAuth).where(user_id == u, is_enabled == True).first()
EnabledTwoFactor(tf, u) == tf[u].exists /\ tf[u].is_enabled

\* Mutant: the query does not filter on is_used.
UnusedBackupRows_any(codes, u, code) ==
    {b \in codes : b.user_id = u /\ b.code_hash = code_hash(code)}

\* select(TwoFactorBackupCode).where(user_id == u, code_hash == h,
\* is_used == False)
UnusedBackupRows(codes, u, code) ==
    {b \in codes : b.user_id = u /\ b.code_hash = code_hash(code) /\ ~b.is_used}

\* The rows of a new batch of backup codes, drawn after n random values.
NewBackupRows(u, n) ==
    {[id |-> n + k, user_id |-> u, code_hash |-> code_hash(BackupCode(n + k)),
      is_used |-> FALSE] : k \in 1..BackupCodesPerBatch}

\* The HTTP response of a request, with the inputs it was made with.
NoHttp == [route |-> "none", status |-> 0, detail |-> "", user |-> 0,
           bearer |-> NoToken, code |-> NoCode, cookie |-> 0, info |-> NoInfo,
           minted |-> NoToken, requires_2fa |-> FALSE, invite_token |-> 0]

(***************************************************************************)
(* The service operations as steps (SpecTD, SpecCap).                      *)
(***************************************************************************)
Issue(u, req, days, maxrows, maxshort, full) ==
    /\ Len(devices) < maxrows
    /\ days # default_expiration_days => Cardinality(ShortLived(devices)) < maxshort
    /\ \E victim \in EvictionChoices(devices, u) :
         LET r == save_trusted_device(devices,
                      create_trusted_device(devices, u, req, days, now), victim, now)
         IN /\ devices' = r[2]
            /\ resp' = Respond(full, [NoResp EXCEPT !.op = "issue", !.user = u,
                            !.info = extract_device_info_from_request(req),
                            !.token = generate_secure_token(devices),
                            !.device = r[1], !.audit = r[3]])
    /\ UNCHANGED <<now, procs, invitations, redis_client>>

Verify(u, token, req, full) ==
    /\ LET r == verify_trusted_device(devices, token, req, u, now)
       IN /\ devices' = r[2]
          /\ resp' = Respond(full, [NoResp EXCEPT !.op = "verify", !.user = u,
                          !.info = extract_device_info_from_request(req),
                          !.token = token, !.device = r[1], !.audit = r[3]])
    /\ UNCHANGED <<now, procs, invitations, redis_client>>

Revoke(u, id, full) ==
    /\ LET r == revoke_trusted_device(devices, u, id, now)
       IN /\ devices' = r[2]
          /\ resp' = Respond(full, [NoResp EXCEPT !.op = "revoke", !.user = u,
                          !.device = id, !.count = IF r[1] THEN 1 ELSE 0,
                          !.audit = r[3]])
    /\ UNCHANGED <<now, procs, invitations, redis_client>>

RevokeAll(u, full) ==
    /\ LET r == revoke_all_trusted_devices(devices, u, now)
       IN /\ devices' = r[2]
          /\ resp' = Respond(full, [NoResp EXCEPT !.op = "revoke_all", !.user = u,
                          !.count = r[1], !.audit = r[3]])
    /\ UNCHANGED <<now, procs, invitations, redis_client>>

TickDay ==
    /\ now < MaxDays * StepsPerDay
    /\ now' = now + StepsPerDay
    /\ resp' = NoResp
    /\ UNCHANGED <<devices, procs>>

Init ==
    /\ now = 0
    /\ devices = <<>>
    /\ resp = NoResp
    /\ procs = <<>>
    /\ nops = 0
    /\ users = <<>>
    /\ two_factor = [u \in Users |-> NoTwoFactor]
    /\ backup_codes = {}
    /\ sessions = {}
    /\ tokens = {}
    /\ rand = 0
    /\ http = NoHttp
    /\ accepted = {}
    /\ invitations = <<>>
    /\ redis_client = {}

\* expiration_days of a request: the default, and 0 as in
\* test_trusted_device_expiration.
ExpirationDays == {0, default_expiration_days}

NextTD ==
    /\ \/ \E u \in Users, req \in Requests, days \in ExpirationDays :
             Issue(u, req, days, MaxVerifyRows, MaxVerifyRows, TRUE)
       \/ \E u \in Users, token \in 0..Len(devices), req \in Requests :
             Verify(u, token, req, TRUE)
       \/ \E u \in Users, id \in 1..(Len(devices) + 1) : Revoke(u, id, TRUE)
       \/ \E u \in Users : RevokeAll(u, TRUE)
       \/ TickDay
    /\ UNCHANGED <<nops, authvars>>

SpecTD == Init /\ [][NextTD]_vars

\* The device cap is exercised by one user, with one browser issuing and two
\* verifying; the other user holds few devices.
CapUser == 1
CapIssueRequests == {[ua |-> "chrome-win/1", ip |-> "8.8.8.8", geo |-> "ok"]}
CapVerifyRequests ==
    {[ua |-> "chrome-win/1", ip |-> "8.8.8.8", geo |-> "ok"],
     [ua |-> "safari-ios/2", ip |-> "8.8.8.8", geo |-> "ok"]}

CapIssue ==
    /\ \E u \in Users, req \in CapIssueRequests, days \in ExpirationDays :
          /\ u # CapUser => Cardinality(DevicesOf(devices, u)) < MaxOtherRows
          /\ Issue(u, req, days, MaxDevRows, MaxShortLived, FALSE)
    /\ UNCHANGED <<nops, authvars>>

CapOp ==
    /\ nops < MaxCapOps
    /\ nops' = nops + 1
    /\ \/ \E token \in 1..Len(devices), req \in CapVerifyRequests :
             (\E u \in Users : Verify(u, token, req, FALSE))
       \/ \E u \in Users, id \in 1..Len(devices) : Revoke(u, id, FALSE)
       \/ \E u \in Users : RevokeAll(u, FALSE)
    /\ UNCHANGED authvars

CapTick == TickDay /\ UNCHANGED <<nops, authvars>>

NextCap == CapIssue \/ CapOp \/ CapTick

SpecCap == Init /\ [][NextCap]_vars

(***************************************************************************)
(* The HTTP handlers of app/routes/auth.py as steps.                       *)
(***************************************************************************)
\* An error response of a request that committed nothing.
Reject(route, status, detail) ==
    /\ http' = [NoHttp EXCEPT !.route = route, !.status = status, !.detail = detail]
    /\ resp' = NoResp
    /\ UNCHANGED <<devices, users, two_factor, backup_codes, sessions, tokens, rand,
                   accepted>>

UserSession(u, jti, trusted_device_id) ==
    [user_id |-> u, token_jti |-> jti, trusted_device_id |-> trusted_device_id]

\* The end of every successful login: a session row with a fresh jti and an
\* access token carrying it.
CompleteLogin(route, u, trusted_device_id, h) ==
    LET jti == rand + 1
        access_token == create_access_token(u, users[u].email, FALSE,
                            users[u].token_version,
                            ACCESS_TOKEN_EXPIRE_MINUTES, jti, now)
    IN /\ rand' = jti
       /\ sessions' = sessions \cup {UserSession(u, jti, trusted_device_id)}
       /\ tokens' = tokens \cup {access_token}
       /\ http' = [h EXCEPT !.route = route, !.status = 200, !.user = u,
                            !.minted = access_token]

\* The temporary token of a login that needs the second factor.
IssueChallenge(route, u, h) ==
    LET temp_token == create_access_token(u, users[u].email, TRUE,
                          users[u].token_version,
                          PendingTokenMinutes, 0, now)
    IN /\ tokens' = tokens \cup {temp_token}
       /\ http' = [h EXCEPT !.route = route, !.status = 200, !.user = u,
                            !.requires_2fa = TRUE, !.minted = temp_token]
       /\ UNCHANGED <<sessions, rand>>

\* Mutant: the login never asks for the second factor.
RequiresSecondFactor_never(two_factor_enabled, trusted_device) == FALSE

\* signin / google callback: "if two_factor and not trusted_device".
RequiresSecondFactor(two_factor_enabled, trusted_device) ==
    two_factor_enabled /\ trusted_device = 0

\* The part of signin and of the Google callback after the user is
\* authenticated: trusted-device check, then challenge or session.
LoginGate(route, u, cookie, req) ==
    LET enabled == EnabledTwoFactor(two_factor, u)
        checked == cookie # 0 /\ enabled
        v == IF checked THEN verify_trusted_device(devices, cookie, req, u, now)
             ELSE <<0, devices, <<>>>>
        h == [NoHttp EXCEPT !.cookie = cookie,
                            !.info = extract_device_info_from_request(req)]
    IN /\ devices' = v[2]
       /\ resp' = IF checked
                  THEN [NoResp EXCEPT !.op = "verify", !.user = u, !.token = cookie,
                           !.info = extract_device_info_from_request(req),
                           !.device = v[1], !.audit = v[3]]
                  ELSE NoResp
       /\ IF RequiresSecondFactor(enabled, v[1])
          THEN IssueChallenge(route, u, h)
          ELSE CompleteLogin(route, u, v[1], h)
       /\ UNCHANGED <<users, two_factor, backup_codes, accepted>>

\* POST /auth/signup
signup(username, email, password) ==
    /\ IF \E i \in 1..Len(users) : users[i].username = username
       THEN Reject("signup", 400, "Username already registered")
       ELSE IF \E i \in 1..Len(users) : users[i].email = email
       THEN Reject("signup", 400, "Email already registered")
       ELSE /\ Len(users) < Cardinality(Users)
            /\ users' = Append(users, [username |-> username, email |-> email,
                                       password_hash |-> hash_password(password),
                                       token_version |-> 0])
            /\ LET u == Len(users) + 1
                   jti == rand + 1
                   access_token == create_access_token(u, email, FALSE, 0,
                                       ACCESS_TOKEN_EXPIRE_MINUTES, jti, now)
               IN /\ rand' = jti
                  /\ sessions' = sessions \cup {UserSession(u, jti, 0)}
                  /\ tokens' = tokens \cup {access_token}
                  /\ http' = [NoHttp EXCEPT !.route = "signup", !.status = 200,
                                            !.user = u, !.minted = access_token]
            /\ resp' = NoResp
            /\ UNCHANGED <<devices, two_factor, backup_codes, accepted>>
    /\ UNCHANGED <<now, procs, invitations, redis_client>>

\* POST /auth/signin
signin(login, password, cookie, req) ==
    /\ LET u == FindUser(users, login)
       IN IF u = 0
          THEN Reject("signin", 401, "Invalid credentials")
          ELSE IF users[u].password_hash = NoPasswordHash
          THEN \* passlib cannot identify the empty hash of an OAuth user
               Reject("signin", 500, "Internal Server Error")
          ELSE IF ~verify_password(password, users[u].password_hash)
          THEN Reject("signin", 401, "Invalid credentials")
          ELSE LoginGate("signin", u, cookie, req)
    /\ UNCHANGED <<now, procs, invitations, redis_client>>

\* GET /auth/google/callback for the Google account of an e-mail address.
auth_google_callback(email, cookie, req) ==
    /\ LET found == {i \in 1..Len(users) : users[i].email = email}
       IN IF found # {}
          THEN LoginGate("google", CHOOSE i \in found : \A j \in found : i <= j,
                         cookie, req)
          ELSE /\ Len(users) < Cardinality(Users)
               /\ users' = Append(users, [username |-> email, email |-> email,
                                          password_hash |-> NoPasswordHash,
                                          token_version |-> 0])
               /\ LET u == Len(users) + 1
                      jti == rand + 1
                      access_token == create_access_token(u, email, FALSE, 0,
                                          ACCESS_TOKEN_EXPIRE_MINUTES, jti, now)
                  IN /\ rand' = jti
                     /\ sessions' = sessions \cup {UserSession(u, jti, 0)}
                     /\ tokens' = tokens \cup {access_token}
                     /\ http' = [NoHttp EXCEPT !.route = "google", !.status = 200,
                                               !.user = u, !.minted = access_token]
               /\ resp' = NoResp
               /\ UNCHANGED <<devices, two_factor, backup_codes, accepted>>
    /\ UNCHANGED <<now, procs, invitations, redis_client>>

\* Marks a backup-code row used.
MarkUsed(codes, rows) ==
    IF rows = {} THEN codes
    ELSE LET b == CHOOSE x \in rows : \A y \in rows : x.id <= y.id
         IN (codes \ {b}) \cup {[b EXCEPT !.is_used = TRUE]}

\* The code check of verify-2fa: the primary method, then the backup codes.
\* The stored sms / email code is cleared after every attempt against it.
login_code_check(tf, codes, u, code, t) ==
    LET row == tf[u]
        stored == row.temp_code # NoCode
        primary ==
            IF row.method = "authenticator" THEN totp_verify(row.secret_key, code, t)
            ELSE /\ stored
                 /\ ~(t > row.temp_code_expires_at)
                 /\ row.temp_code = code
        rows == IF primary THEN {} ELSE UnusedBackupRows(codes, u, code)
    IN [is_valid     |-> primary \/ rows # {},
        by_backup    |-> rows # {},
        two_factor   |-> IF row.method # "authenticator" /\ stored
                         THEN [tf EXCEPT ![u].temp_code = NoCode,
                                         ![u].temp_code_expires_at = 0]
                         ELSE tf,
        backup_codes |-> MarkUsed(codes, rows)]

\* POST /auth/verify-2fa
verify_2fa_login(token, code, remember_device, req) ==
    /\ IF ~(jwt_decode(tokens, token, now) /\ token.temp_2fa /\ token.sub # 0)
       THEN Reject("verify-2fa", 401, "Invalid token")
       ELSE IF code = NoCode
       THEN Reject("verify-2fa", 400, "Invalid request body")
       ELSE IF ~EnabledTwoFactor(two_factor, token.sub)
       THEN Reject("verify-2fa", 400, "Two-factor authentication is not enabled")
       ELSE IF two_factor[token.sub].method = "authenticator"
               /\ two_factor[token.sub].secret_key = 0
       THEN Reject("verify-2fa", 500, "No secret key found")
       ELSE
         LET u == token.sub
             c == login_code_check(two_factor, backup_codes, u, code, now)
             h == [NoHttp EXCEPT !.bearer = token, !.code = code,
                                 !.info = extract_device_info_from_request(req)]
         IN /\ two_factor' = c.two_factor
            /\ backup_codes' = c.backup_codes
            /\ accepted' = IF c.by_backup THEN accepted \cup {code} ELSE accepted
            /\ UNCHANGED users
            /\ IF ~c.is_valid
               THEN /\ http' = [h EXCEPT !.route = "verify-2fa", !.status = 400,
                                   !.detail = "Invalid verification code", !.user = u]
                    /\ resp' = NoResp
                    /\ UNCHANGED <<devices, sessions, tokens, rand>>
               ELSE IF remember_device
               THEN \E victim \in EvictionChoices(devices, u) :
                      LET r == save_trusted_device(devices,
                                   create_trusted_device(devices, u, req,
                                       default_expiration_days, now), victim, now)
                      IN /\ devices' = r[2]
                         /\ resp' = [NoResp EXCEPT !.op = "issue", !.user = u,
                                        !.info = extract_device_info_from_request(req),
                                        !.token = generate_secure_token(devices),
                                        !.device = r[1], !.audit = r[3]]
                         /\ CompleteLogin("verify-2fa", u, r[1],
                                [h EXCEPT !.cookie = generate_secure_token(devices)])
               ELSE /\ UNCHANGED devices
                    /\ resp' = NoResp
                    /\ CompleteLogin("verify-2fa", u, 0, h)
    /\ UNCHANGED <<now, procs, invitations, redis_client>>

\* POST /auth/forgot-password: the reset token mailed to a registered address.
forgot_password(email) ==
    /\ LET found == {i \in 1..Len(users) : users[i].email = email}
           user == CHOOSE i \in found : \A j \in found : i <= j
       IN /\ tokens' = IF found = {} THEN tokens
                       ELSE tokens \cup {create_reset_token(user, users[user].email, now)}
          /\ http' = [NoHttp EXCEPT !.route = "forgot-password", !.status = 200]
    /\ resp' = NoResp
    /\ UNCHANGED <<devices, users, two_factor, backup_codes, sessions, rand, accepted>>
    /\ UNCHANGED <<now, procs, invitations, redis_client>>

\* reset-password looking the user up by the id of the token alone.
reset_password_unmatched(token, new_password) ==
    /\ IF ~(token \in tokens)
       THEN Reject("reset-password", 400, "Invalid token.")
       ELSE IF ~(now < token.exp)
       THEN Reject("reset-password", 400, "Reset token expired.")
       ELSE IF ~token.reset \/ ~(token.sub \in 1..Len(users))
       THEN Reject("reset-password", 400, "Invalid token.")
       ELSE /\ users' = [users EXCEPT
                            ![token.sub].password_hash = hash_password(new_password),
                            ![token.sub].token_version = @ + 1]
            /\ http' = [NoHttp EXCEPT !.route = "reset-password", !.status = 200,
                                      !.user = token.sub, !.bearer = token]
            /\ resp' = NoResp
            /\ UNCHANGED <<devices, two_factor, backup_codes, sessions, tokens, rand,
                           accepted>>
    /\ UNCHANGED <<now, procs, invitations, redis_client>>

\* POST /auth/reset-password
reset_password(token, new_password) ==
    /\ IF ~(token \in tokens)
       THEN Reject("reset-password", 400, "Invalid token.")
       ELSE IF ~(now < token.exp)
       THEN Reject("reset-password", 400, "Reset token expired.")
       ELSE IF \/ ~token.reset
               \/ ~(\E i \in 1..Len(users) : i = token.sub /\ users[i].email = token.email)
       THEN Reject("reset-password", 400, "Invalid token.")
       ELSE /\ users' = [users EXCEPT
                            ![token.sub].password_hash = hash_password(new_password),
                            ![token.sub].token_version = @ + 1]
            /\ http' = [NoHttp EXCEPT !.route = "reset-password", !.status = 200,
                                      !.user = token.sub, !.bearer = token]
            /\ resp' = NoResp
            /\ UNCHANGED <<devices, two_factor, backup_codes, sessions, tokens, rand,
                           accepted>>
    /\ UNCHANGED <<now, procs, invitations, redis_client>>

\* An optional field of a request body that was left out.
None == "None"

\* PUT /users/{user_id} (app/routes/user.py): the route takes no bearer token.
update_user(user_id, username, email, password) ==
    /\ IF ~(user_id \in 1..Len(users))
       THEN Reject("update-user", 404, "User not found")
       ELSE IF /\ username # None
               /\ \E i \in 1..Len(users) : i # user_id /\ users[i].username = username
       THEN Reject("update-user", 400, "Username already registered")
       ELSE IF /\ email # None
               /\ \E i \in 1..Len(users) : i # user_id /\ users[i].email = email
       THEN Reject("update-user", 400, "Email already registered")
       ELSE /\ users' = [users EXCEPT
                            ![user_id].username = IF username # None THEN username ELSE @,
                            ![user_id].email = IF email # None THEN email ELSE @,
                            ![user_id].password_hash =
                                IF password # None THEN hash_password(password) ELSE @]
            /\ http' = [NoHttp EXCEPT !.route = "update-user", !.status = 200,
                                      !.user = user_id]
            /\ resp' = NoResp
            /\ UNCHANGED <<devices, two_factor, backup_codes, sessions, tokens, rand,
                           accepted>>
    /\ UNCHANGED <<now, procs, invitations, redis_client>>

(***************************************************************************)
(* Sessions (app/routes/user_session.py).  A row of user_sessions is named *)
(* in a request by its id; the model names it by its token_jti, which is   *)
(* unique like the id.                                                     *)
(***************************************************************************)
\* get_user_and_jti: <<user id, jti>> of a bearer token, <<0, 0>> when it is
\* rejected with 401.
get_user_and_jti(toks, token, t) ==
    IF jwt_decode(toks, token, t) /\ token.sub # 0 /\ token.jti # 0
    THEN <<token.sub, token.jti>> ELSE <<0, 0>>

\* DELETE /sessions/{session_id}
revoke_session(token, session_id) ==
    /\ LET uj == get_user_and_jti(tokens, token, now)
           rows == {x \in sessions : x.token_jti = session_id /\ x.user_id = uj[1]}
       IN IF uj[1] = 0
          THEN Reject("revoke-session", 401, "Invalid token")
          ELSE IF rows = {}
          THEN Reject("revoke-session", 404, "Session not found")
          ELSE /\ sessions' = sessions \ rows
               /\ http' = [NoHttp EXCEPT !.route = "revoke-session", !.status = 200,
                              !.user = uj[1], !.bearer = token,
                              !.detail = IF session_id = uj[2]
                                         THEN "Current session revoked"
                                         ELSE "Session revoked"]
               /\ resp' = NoResp
               /\ UNCHANGED <<devices, users, two_factor, backup_codes, tokens, rand,
                              accepted>>
    /\ UNCHANGED <<now, procs, invitations, redis_client>>

\* DELETE /sessions/
revoke_all_sessions(token) ==
    /\ LET uj == get_user_and_jti(tokens, token, now)
       IN IF uj[1] = 0
          THEN Reject("revoke-all-sessions", 401, "Invalid token")
          ELSE /\ sessions' = {x \in sessions : x.user_id # uj[1]}
               /\ http' = [NoHttp EXCEPT !.route = "revoke-all-sessions",
                              !.status = 200, !.user = uj[1], !.bearer = token,
                              !.detail = "All sessions revoked"]
               /\ resp' = NoResp
               /\ UNCHANGED <<devices, users, two_factor, backup_codes, tokens, rand,
                              accepted>>
    /\ UNCHANGED <<now, procs, invitations, redis_client>>

(***************************************************************************)
(* Family invitations (app/routes/family.py).                              *)
(***************************************************************************)
\* timedelta(days=5): the days an invitation can be used after it was sent.
InvitationDays == 5

\* A row of invitations.  token is the value secrets.token_urlsafe drew;
\* registered is history: the ids of the users register-invitee created
\* from the row.
Invitation(email, token, t) ==
    [email |-> email, status |-> "pending", token |-> token, sent_at |-> t,
     registered |-> {}]

\* select(Invitation).where(Invitation.token == token), first(): the id of
\* the row, 0 when there is none.
InvitationByToken(invs, token) ==
    LET found == {i \in 1..Len(invs) : invs[i].token = token}
    IN IF found = {} THEN 0 ELSE CHOOSE i \in found : \A j \in found : i <= j

\* The tests without the one of the status of the row.
InvitationUsable_any_status(invs, i, t) ==
    /\ i # 0
    /\ ~(invs[i].sent_at < t - InvitationDays * StepsPerDay)

\* The tests accept_invite and register_invitee make before they use a row.
InvitationUsable(invs, i, t) ==
    /\ i # 0
    /\ invs[i].status = "pending"
    /\ ~(invs[i].sent_at < t - InvitationDays * StepsPerDay)

\* POST /family/invite: one pending row with a fresh token per invitee.
invite(invitees) ==
    /\ invitations' = invitations \o
           [k \in 1..Len(invitees) |-> Invitation(invitees[k], rand + k, now)]
    /\ rand' = rand + Len(invitees)
    /\ http' = [NoHttp EXCEPT !.route = "invite", !.status = 200]
    /\ resp' = NoResp
    /\ UNCHANGED <<devices, users, two_factor, backup_codes, sessions, tokens, accepted>>
    /\ UNCHANGED <<now, procs, redis_client>>

\* GET /family/invite/accept/{token}: the details of a usable invitation.
accept_invite(token) ==
    /\ LET i == InvitationByToken(invitations, token)
       IN http' = IF InvitationUsable(invitations, i, now)
                  THEN [NoHttp EXCEPT !.route = "accept-invite", !.status = 200,
                                      !.invite_token = token]
                  ELSE [NoHttp EXCEPT !.route = "accept-invite", !.status = 404,
                                      !.detail = "Invalid or expired invitation",
                                      !.invite_token = token]
    /\ resp' = NoResp
    /\ UNCHANGED <<devices, users, two_factor, backup_codes, sessions, tokens, rand,
                   accepted, invitations>>
    /\ UNCHANGED <<now, procs, redis_client>>

\* A request of the family routes that committed nothing.
RejectInvite(route, status, detail, token) ==
    /\ http' = [NoHttp EXCEPT !.route = route, !.status = status, !.detail = detail,
                              !.invite_token = token]
    /\ resp' = NoResp
    /\ UNCHANGED <<devices, users, two_factor, backup_codes, sessions, tokens, rand,
                   accepted, invitations>>

\* POST /family/register-invitee.  users.email is unique, so the commit of
\* a second user with the address of the invitation fails (500).
register_invitee(token, username, password) ==
    /\ LET i == InvitationByToken(invitations, token)
       IN IF ~InvitationUsable(invitations, i, now)
          THEN RejectInvite("register-invitee", 404, "Invalid or expired invitation",
                            token)
          ELSE IF \E u \in 1..Len(users) : users[u].username = username
          THEN RejectInvite("register-invitee", 400, "Username already taken", token)
          ELSE IF \E u \in 1..Len(users) : users[u].email = invitations[i].email
          THEN RejectInvite("register-invitee", 500, "IntegrityError", token)
          ELSE /\ Len(users) < Cardinality(Users)
               /\ users' = Append(users, [username |-> username,
                                          email |-> invitations[i].email,
                                          password_hash |-> hash_password(password),
                                          token_version |-> 0])
               /\ invitations' = [invitations EXCEPT
                                     ![i].status = "accepted",
                                     ![i].registered = @ \cup {Len(users) + 1}]
               /\ http' = [NoHttp EXCEPT !.route = "register-invitee", !.status = 200,
                                         !.user = Len(users) + 1,
                                         !.invite_token = token]
               /\ resp' = NoResp
               /\ UNCHANGED <<devices, two_factor, backup_codes, sessions, tokens,
                              rand, accepted>>
    /\ UNCHANGED <<now, procs, redis_client>>

\* get_current_user_id (app/core/auth.py, app/routes/two_factor_auth.py):
\* the user id of a bearer token, 0 when it is rejected with 401.
BearerUser(toks, us, token, t) ==
    IF jwt_decode(toks, token, t) /\ token.sub # 0 THEN token.sub ELSE 0

\* GET /auth/me
get_current_user(token) ==
    /\ LET u == BearerUser(tokens, users, token, now)
       IN IF u = 0
          THEN Reject("me", 401, "Invalid token")
          ELSE IF ~(u \in 1..Len(users))
          THEN Reject("me", 404, "User not found")
          ELSE /\ http' = [NoHttp EXCEPT !.route = "me", !.status = 200, !.user = u,
                                         !.bearer = token]
               /\ resp' = NoResp
               /\ UNCHANGED <<devices, users, two_factor, backup_codes, sessions,
                              tokens, rand, accepted>>
    /\ UNCHANGED <<now, procs, invitations, redis_client>>

(***************************************************************************)
(* The HTTP handlers of app/routes/two_factor_auth.py as steps.            *)
(***************************************************************************)
\* A response of a handler that changed nothing but the tables named in its
\* own conjuncts.
Ok(route, u, token, code) ==
    [NoHttp EXCEPT !.route = route, !.status = 200, !.user = u, !.bearer = token,
                   !.code = code]

\* enable without the test of an outstanding setup code.
enable_two_factor_unverified(token, method, phone_number) ==
    /\ LET u == BearerUser(tokens, users, token, now)
       IN IF u = 0
          THEN Reject("enable", 401, "Invalid token")
          ELSE IF ~(u \in 1..Len(users))
          THEN Reject("enable", 404, "User not found")
          ELSE IF two_factor[u].exists /\ two_factor[u].is_enabled
          THEN Reject("enable", 400, "Two-factor authentication is already enabled")
          ELSE IF method = "sms" /\ phone_number = ""
          THEN Reject("enable", 400, "Phone number is required for SMS 2FA")
          ELSE LET drawn == rand + BackupCodesPerBatch
                   old == two_factor[u]
               IN /\ backup_codes' = backup_codes \cup NewBackupRows(u, rand)
                  /\ IF method = "authenticator"
                     THEN /\ rand' = drawn + 1
                          /\ two_factor' = [two_factor EXCEPT ![u] =
                                [old EXCEPT !.exists = TRUE, !.method = method,
                                            !.secret_key = drawn + 1,
                                            !.is_enabled = TRUE]]
                     ELSE /\ rand' = drawn
                          /\ two_factor' = [two_factor EXCEPT ![u] =
                                [old EXCEPT !.exists = TRUE, !.method = method,
                                            !.phone_number =
                                                IF method = "sms" THEN phone_number
                                                ELSE old.phone_number,
                                            !.is_enabled = TRUE]]
                  /\ http' = Ok("enable", u, token, NoCode)
                  /\ resp' = NoResp
                  /\ UNCHANGED <<devices, users, sessions, tokens, accepted>>
    /\ UNCHANGED <<now, procs, invitations, redis_client>>

\* POST /users/2fa/enable
enable_two_factor(token, method, phone_number) ==
    /\ LET u == BearerUser(tokens, users, token, now)
       IN IF u = 0
          THEN Reject("enable", 401, "Invalid token")
          ELSE IF ~(u \in 1..Len(users))
          THEN Reject("enable", 404, "User not found")
          ELSE IF two_factor[u].exists /\ two_factor[u].is_enabled
          THEN Reject("enable", 400, "Two-factor authentication is already enabled")
          ELSE IF method = "sms" /\ phone_number = ""
          THEN Reject("enable", 400, "Phone number is required for SMS 2FA")
          ELSE IF method \in {"sms", "email"} /\ two_factor[u].exists
                  /\ two_factor[u].temp_code # NoCode
          THEN Reject("enable", 400, "Please verify first")
          ELSE LET drawn == rand + BackupCodesPerBatch
                   old == two_factor[u]
               IN /\ backup_codes' = backup_codes \cup NewBackupRows(u, rand)
                  /\ IF method = "authenticator"
                     THEN /\ rand' = drawn + 1
                          /\ two_factor' = [two_factor EXCEPT ![u] =
                                [old EXCEPT !.exists = TRUE, !.method = method,
                                            !.secret_key = drawn + 1,
                                            !.is_enabled = TRUE]]
                     ELSE /\ rand' = drawn
                          /\ two_factor' = [two_factor EXCEPT ![u] =
                                [old EXCEPT !.exists = TRUE, !.method = method,
                                            !.phone_number =
                                                IF method = "sms" THEN phone_number
                                                ELSE old.phone_number,
                                            !.is_enabled = TRUE]]
                  /\ http' = Ok("enable", u, token, NoCode)
                  /\ resp' = NoResp
                  /\ UNCHANGED <<devices, users, sessions, tokens, accepted>>
    /\ UNCHANGED <<now, procs, invitations, redis_client>>

\* Mutant: the stored sms / email code never expires.
settings_code_check_unexpiring(tf, codes, u, code, t) ==
    LET row == tf[u]
        primary ==
            IF row.method = "authenticator" THEN totp_verify(row.secret_key, code, t)
            ELSE row.temp_code # NoCode /\ row.temp_code = code
        rows == IF primary THEN {} ELSE UnusedBackupRows(codes, u, code)
    IN [is_valid     |-> primary \/ rows # {},
        by_backup    |-> rows # {},
        two_factor   |-> IF row.method # "authenticator" /\ primary
                         THEN [tf EXCEPT ![u].temp_code = NoCode,
                                         ![u].temp_code_expires_at = 0]
                         ELSE tf,
        backup_codes |-> MarkUsed(codes, rows)]

\* The code check of /users/2fa/verify: the stored sms / email code is
\* cleared only when it matched.
settings_code_check(tf, codes, u, code, t) ==
    LET row == tf[u]
        primary ==
            IF row.method = "authenticator" THEN totp_verify(row.secret_key, code, t)
            ELSE /\ row.temp_code # NoCode
                 /\ row.temp_code = code
                 /\ t < row.temp_code_expires_at
        rows == IF primary THEN {} ELSE UnusedBackupRows(codes, u, code)
    IN [is_valid     |-> primary \/ rows # {},
        by_backup    |-> rows # {},
        two_factor   |-> IF row.method # "authenticator" /\ primary
                         THEN [tf EXCEPT ![u].temp_code = NoCode,
                                         ![u].temp_code_expires_at = 0]
                         ELSE tf,
        backup_codes |-> MarkUsed(codes, rows)]

\* POST /users/2fa/verify
verify_two_factor(token, code) ==
    /\ LET u == BearerUser(tokens, users, token, now)
       IN IF u = 0
          THEN Reject("verify", 401, "Invalid token")
          ELSE IF ~(two_factor[u].exists /\ two_factor[u].is_enabled)
          THEN Reject("verify", 400, "Two-factor authentication is not enabled")
          ELSE IF two_factor[u].method = "authenticator" /\ two_factor[u].secret_key = 0
          THEN Reject("verify", 500, "No secret key found")
          ELSE LET c == settings_code_check(two_factor, backup_codes, u, code, now)
               IN /\ two_factor' = c.two_factor
                  /\ backup_codes' = c.backup_codes
                  /\ accepted' = IF c.by_backup THEN accepted \cup {code} ELSE accepted
                  /\ http' = IF c.is_valid THEN Ok("verify", u, token, code)
                             ELSE [Ok("verify", u, token, code) EXCEPT !.status = 400,
                                      !.detail = "Invalid verification code"]
                  /\ resp' = NoResp
                  /\ UNCHANGED <<devices, users, sessions, tokens, rand>>
    /\ UNCHANGED <<now, procs, invitations, redis_client>>

\* The check disable_two_factor makes of a verification code it was given.
disable_code_check(row, code, t) ==
    IF row.method = "authenticator" /\ row.secret_key # 0
    THEN totp_verify(row.secret_key, code, t)
    ELSE IF row.method \in {"sms", "email"} THEN IsSixDigits(code)
    ELSE FALSE

\* disable deleting the used backup codes of the user as well.
disable_two_factor_all_codes(token, verification_code) ==
    /\ LET u == BearerUser(tokens, users, token, now)
       IN IF u = 0
          THEN Reject("disable", 401, "Invalid token")
          ELSE IF ~(two_factor[u].exists /\ two_factor[u].is_enabled)
          THEN Reject("disable", 400, "Two-factor authentication is not enabled")
          ELSE IF verification_code # NoCode
                  /\ ~disable_code_check(two_factor[u], verification_code, now)
          THEN Reject("disable", 400, "Invalid verification code")
          ELSE /\ two_factor' = [two_factor EXCEPT ![u].is_enabled = FALSE]
               /\ backup_codes' = {b \in backup_codes : b.user_id # u}
               /\ http' = Ok("disable", u, token, verification_code)
               /\ resp' = NoResp
               /\ UNCHANGED <<devices, users, sessions, tokens, rand, accepted>>
    /\ UNCHANGED <<now, procs, invitations, redis_client>>

\* POST /users/2fa/disable; verification_code = NoCode: none was sent.
disable_two_factor(token, verification_code) ==
    /\ LET u == BearerUser(tokens, users, token, now)
       IN IF u = 0
          THEN Reject("disable", 401, "Invalid token")
          ELSE IF ~(two_factor[u].exists /\ two_factor[u].is_enabled)
          THEN Reject("disable", 400, "Two-factor authentication is not enabled")
          ELSE IF verification_code # NoCode
                  /\ ~disable_code_check(two_factor[u], verification_code, now)
          THEN Reject("disable", 400, "Invalid verification code")
          ELSE /\ two_factor' = [two_factor EXCEPT ![u].is_enabled = FALSE]
               /\ backup_codes' = {b \in backup_codes : ~(b.user_id = u /\ ~b.is_used)}
               /\ http' = Ok("disable", u, token, verification_code)
               /\ resp' = NoResp
               /\ UNCHANGED <<devices, users, sessions, tokens, rand, accepted>>
    /\ UNCHANGED <<now, procs, invitations, redis_client>>

\* GET /users/2fa/backup-codes
regenerate_backup_codes(token) ==
    /\ LET u == BearerUser(tokens, users, token, now)
       IN IF u = 0
          THEN Reject("backup-codes", 401, "Invalid token")
          ELSE IF ~(two_factor[u].exists /\ two_factor[u].is_enabled)
          THEN Reject("backup-codes", 400, "Two-factor authentication is not enabled")
          ELSE /\ backup_codes' = {b \in backup_codes : b.user_id # u}
                                     \cup NewBackupRows(u, rand)
               /\ rand' = rand + BackupCodesPerBatch
               /\ http' = Ok("backup-codes", u, token, NoCode)
               /\ resp' = NoResp
               /\ UNCHANGED <<devices, users, two_factor, sessions, tokens, accepted>>
    /\ UNCHANGED <<now, procs, invitations, redis_client>>

\* Stores a fresh 6-digit code with its expiry in the row of user u.
StoreTempCode(tf, u, code, t) ==
    [tf EXCEPT ![u].temp_code = code,
               ![u].temp_code_expires_at = t + TempCodeMinutes * StepsPerMinute]

\* The common body of send-code, resend-code and send-login-code once the
\* bearer is authenticated as u.
SendToEnabled(route, u, token, method) ==
    IF ~(two_factor[u].exists /\ two_factor[u].is_enabled)
    THEN Reject(route, 400, "Two-factor authentication is not enabled")
    ELSE IF method \notin {"sms", "email"}
    THEN Reject(route, 400, "Only available for SMS and Email methods")
    ELSE IF two_factor[u].method # method
    THEN Reject(route, 400, "Your 2FA method is another")
    ELSE \E code \in DigitCodes :
           /\ two_factor' = StoreTempCode(two_factor, u, code, now)
           /\ http' = Ok(route, u, token, code)
           /\ resp' = NoResp
           /\ UNCHANGED <<devices, users, backup_codes, sessions, tokens, rand,
                          accepted>>

\* POST /users/2fa/send-code
send_two_factor_code(token, method) ==
    /\ LET u == BearerUser(tokens, users, token, now)
       IN IF u = 0 THEN Reject("send-code", 401, "Invalid token")
          ELSE SendToEnabled("send-code", u, token, method)
    /\ UNCHANGED <<now, procs, invitations, redis_client>>

\* POST /users/2fa/resend-code
resend_two_factor_code(token, method) ==
    /\ LET u == BearerUser(tokens, users, token, now)
       IN IF u = 0 THEN Reject("resend-code", 401, "Invalid token")
          ELSE IF two_factor[u].exists /\ two_factor[u].is_enabled
                  /\ method \notin {"sms", "email"}
          THEN Reject("resend-code", 200, "Resend is not available")
          ELSE SendToEnabled("resend-code", u, token, method)
    /\ UNCHANGED <<now, procs, invitations, redis_client>>

\* POST /users/2fa/send-login-code: the bearer is the temporary token.
send_login_verification_code(token, method) ==
    /\ IF ~(jwt_decode(tokens, token, now) /\ token.temp_2fa /\ token.sub # 0)
       THEN Reject("send-login-code", 401, "Invalid token")
       ELSE SendToEnabled("send-login-code", token.sub, token, method)
    /\ UNCHANGED <<now, procs, invitations, redis_client>>

\* NotificationService.generate_and_store_code: setex replaces the key
\* 2fa_code:{user_id}:{method} by the new code with its time to live.
generate_and_store_code(redis, user_id, method, code, t) ==
    {r \in redis : ~(r.user_id = user_id /\ r.method = method)}
        \cup {[user_id |-> user_id, method |-> method, code |-> code, attempts |-> 0,
               expires_at |-> t + CodeExpiryMinutes * StepsPerMinute]}

\* The common body of send-sms-code and send-email-code: the bearer is the
\* temporary token.  The handlers call db.query, which the session get_db
\* yields (an AsyncSession) does not have and the sessions the tests inject
\* have: the request either ends in a server error there or goes on.  The
\* code goes to the key of the notification service, whether or not the
\* delivery succeeds.
SendByNotificationService(route, token, method) ==
    IF ~(jwt_decode(tokens, token, now) /\ token.temp_2fa /\ token.sub # 0)
    THEN Reject(route, 401, "Invalid token") /\ UNCHANGED redis_client
    ELSE \/ Reject(route, 500, "Internal Server Error") /\ UNCHANGED redis_client
         \/ LET u == token.sub
            IN IF ~EnabledTwoFactor(two_factor, u) \/ two_factor[u].method # method
               THEN Reject(route, 400, "2FA method is not enabled")
                    /\ UNCHANGED redis_client
               ELSE IF method = "sms" /\ two_factor[u].phone_number = ""
               THEN Reject(route, 400, "No phone number configured for SMS 2FA")
                    /\ UNCHANGED redis_client
               ELSE \E code \in DigitCodes, success \in BOOLEAN :
                      /\ redis_client' =
                            generate_and_store_code(redis_client, u, method, code, now)
                      /\ http' = IF success THEN Ok(route, u, token, code)
                                 ELSE [NoHttp EXCEPT !.route = route, !.status = 500,
                                          !.detail = "Failed to send verification code"]
                      /\ resp' = NoResp
                      /\ UNCHANGED <<devices, users, two_factor, backup_codes, sessions,
                                     tokens, rand, accepted>>

\* POST /auth/send-sms-code
send_sms_code(token) ==
    /\ SendByNotificationService("send-sms-code", token, "sms")
    /\ UNCHANGED <<now, procs, invitations>>

\* POST /auth/send-email-code
send_email_code(token) ==
    /\ SendByNotificationService("send-email-code", token, "email")
    /\ UNCHANGED <<now, procs, invitations>>

\* POST /users/2fa/send-setup-code
send_setup_verification_code(token, method, phone_number) ==
    /\ LET u == BearerUser(tokens, users, token, now)
       IN IF u = 0
          THEN Reject("send-setup-code", 401, "Invalid token")
          ELSE IF two_factor[u].exists /\ two_factor[u].is_enabled
          THEN Reject("send-setup-code", 400,
                      "Two-factor authentication is already enabled")
          ELSE IF method \notin {"sms", "email"}
          THEN Reject("send-setup-code", 400,
                      "Only available for SMS and Email methods")
          ELSE \E code \in DigitCodes :
                 /\ two_factor' =
                       [StoreTempCode(two_factor, u, code, now) EXCEPT
                           ![u].exists = TRUE,
                           ![u].method = method,
                           ![u].phone_number =
                               IF method = "sms" THEN phone_number ELSE @]
                 /\ http' = Ok("send-setup-code", u, token, code)
                 /\ resp' = NoResp
                 /\ UNCHANGED <<devices, users, backup_codes, sessions, tokens, rand,
                                accepted>>
    /\ UNCHANGED <<now, procs, invitations, redis_client>>

\* POST /users/2fa/verify-setup
verify_setup_code(token, code) ==
    /\ LET u == BearerUser(tokens, users, token, now)
       IN IF u = 0
          THEN Reject("verify-setup", 401, "Invalid token")
          ELSE IF ~two_factor[u].exists \/ two_factor[u].temp_code = NoCode
          THEN Reject("verify-setup", 400, "No verification code found.")
          ELSE IF now > two_factor[u].temp_code_expires_at
          THEN Reject("verify-setup", 400, "Verification code has expired.")
          ELSE IF two_factor[u].temp_code # code
          THEN Reject("verify-setup", 400, "Invalid verification code.")
          ELSE /\ two_factor' = [two_factor EXCEPT ![u].temp_code = NoCode,
                                                   ![u].temp_code_expires_at = 0]
               /\ http' = Ok("verify-setup", u, token, code)
               /\ resp' = NoResp
               /\ UNCHANGED <<devices, users, backup_codes, sessions, tokens, rand,
                              accepted>>
    /\ UNCHANGED <<now, procs, invitations, redis_client>>

(***************************************************************************)
(* The HTTP handlers of app/routes/trusted_device.py as steps.             *)
(***************************************************************************)
\* POST /trust-device
create_trusted_device_route(token, req, days, maxrows) ==
    LET u == BearerUser(tokens, users, token, now)
    IN IF u = 0
       THEN Reject("trust-device", 401, "Invalid token")
            /\ UNCHANGED <<now, procs, invitations, redis_client>>
       ELSE /\ Issue(u, req, days, maxrows, maxrows, TRUE)
            /\ http' = Ok("trust-device", u, token, NoCode)
            /\ UNCHANGED <<users, two_factor, backup_codes, sessions, tokens, rand,
                           accepted>>

\* DELETE /trust-device/{device_id}
revoke_trusted_device_route(token, id) ==
    LET u == BearerUser(tokens, users, token, now)
    IN IF u = 0
       THEN Reject("revoke-device", 401, "Invalid token")
            /\ UNCHANGED <<now, procs, invitations, redis_client>>
       ELSE /\ Revoke(u, id, TRUE)
            /\ http' = [Ok("revoke-device", u, token, NoCode) EXCEPT
                           !.status = IF revoke_trusted_device(devices, u, id, now)[1]
                                      THEN 200 ELSE 404]
            /\ UNCHANGED <<users, two_factor, backup_codes, sessions, tokens, rand,
                           accepted>>

\* DELETE /trusted-devices/all
revoke_all_trusted_devices_route(token) ==
    LET u == BearerUser(tokens, users, token, now)
    IN IF u = 0
       THEN Reject("revoke-all-devices", 401, "Invalid token")
            /\ UNCHANGED <<now, procs, invitations, redis_client>>
       ELSE /\ RevokeAll(u, TRUE)
            /\ http' = Ok("revoke-all-devices", u, token, NoCode)
            /\ UNCHANGED <<users, two_factor, backup_codes, sessions, tokens, rand,
                           accepted>>

\* The clock advances by one 30-second step.
TickStep ==
    /\ now' = now + 1
    /\ resp' = NoResp
    /\ http' = NoHttp
    /\ UNCHANGED <<devices, procs, invitations, redis_client, users, two_factor, backup_codes, sessions, tokens,
                   rand, accepted>>

(***************************************************************************)
(* Spec: the handlers, one request at a time.                              *)
(***************************************************************************)
SignupInputs == {[username |-> "alice", email |-> "alice@x"],
                 [username |-> "bob", email |-> "bob@x"]}
Logins == {"alice", "bob@x", "nobody"}
Passwords == {"pw1", "pw2"}
LoginRequests == CapVerifyRequests
Bearers == tokens \cup {NoToken}

\* The backup codes a client presents: of every batch the first
\* MaxCodeInputs ones, whether or not their rows still exist.
KnownBackupCodes ==
    {BackupCode(b.id) : b \in {x \in backup_codes :
        Cardinality({y \in backup_codes : y.user_id = x.user_id /\ y.id < x.id})
            < MaxCodeInputs}} \cup accepted

\* The codes a client presents: the current and an outdated TOTP code of
\* every secret, the 6-digit codes, backup codes and a text.
CodeInputs ==
    {TOTPCode(two_factor[u].secret_key, s) :
        u \in {v \in Users : two_factor[v].secret_key # 0}, s \in {now, now - 2}}
    \cup DigitCodes \cup KnownBackupCodes \cup {JunkCode}

Budget == nops < MaxOps /\ nops' = nops + 1

DoSignup ==
    Budget /\ \E su \in SignupInputs : signup(su.username, su.email, "pw1")

\* In Spec one user signs up with a password; the other one arrives through
\* the Google callback.
DoSignupOne == Budget /\ signup("alice", "alice@x", "pw1")

DoSignin ==
    Budget /\ \E login \in Logins, password \in Passwords, cookie \in 0..Len(devices),
                 req \in LoginRequests : signin(login, password, cookie, req)

DoGoogleCallback ==
    Budget /\ \E su \in SignupInputs, cookie \in 0..Len(devices), req \in LoginRequests :
                 auth_google_callback(su.email, cookie, req)

DoVerify2FALogin ==
    Budget /\ \E token \in Bearers, code \in CodeInputs \cup {NoCode},
                 remember_device \in BOOLEAN, req \in LoginRequests :
                 verify_2fa_login(token, code, remember_device, req)

DoForgotPassword ==
    Budget /\ \E su \in SignupInputs : forgot_password(su.email)

DoResetPassword ==
    Budget /\ \E token \in Bearers : reset_password(token, "pw2")

DoMe == Budget /\ \E token \in Bearers : get_current_user(token)

DoEnable ==
    Budget /\ \E token \in Bearers, method \in Methods, phone \in {"", "555"} :
                 enable_two_factor(token, method, phone)

DoVerify ==
    Budget /\ \E token \in Bearers, code \in CodeInputs : verify_two_factor(token, code)

DoDisable ==
    Budget /\ \E token \in Bearers, code \in CodeInputs \cup {NoCode} :
                 disable_two_factor(token, code)

DoRegenerate == Budget /\ \E token \in Bearers : regenerate_backup_codes(token)

DoSendCode ==
    Budget /\ \E token \in Bearers, method \in Methods :
                 \/ send_two_factor_code(token, method)
                 \/ resend_two_factor_code(token, method)

DoSendLoginCode ==
    Budget /\ \E token \in Bearers, method \in Methods :
                 send_login_verification_code(token, method)

DoSetup ==
    Budget /\ \E token \in Bearers :
                 \/ \E method \in Methods :
                       send_setup_verification_code(token, method, "555")
                 \/ \E code \in DigitCodes : verify_setup_code(token, code)

DoTrustedDevice ==
    Budget /\ \E token \in Bearers :
                 \/ \E req \in LoginRequests, days \in ExpirationDays :
                       create_trusted_device_route(token, req, days, MaxRows)
                 \/ \E id \in 1..Len(devices) : revoke_trusted_device_route(token, id)
                 \/ revoke_all_trusted_devices_route(token)

DoTick == now < MaxSteps /\ TickStep /\ UNCHANGED nops

\* Spec: the login flow with the handlers that change what it reads.
Next ==
    \/ DoSignupOne \/ DoSignin \/ DoGoogleCallback \/ DoVerify2FALogin
    \/ DoSendLoginCode \/ DoEnable \/ DoDisable \/ DoTrustedDevice \/ DoTick

Spec == Init /\ [][Next]_vars

\* Spec2FA: the second-factor settings and every verification of a code.
Next2FA ==
    \/ DoSignup \/ DoSignin \/ DoVerify2FALogin \/ DoSendLoginCode
    \/ DoEnable \/ DoVerify \/ DoDisable \/ DoRegenerate \/ DoSendCode \/ DoSetup
    \/ DoTick

Spec2FA == Init /\ [][Next2FA]_vars

\* SpecToken: password reset and the endpoints that authenticate a bearer
\* token.
NextToken ==
    \/ DoSignup \/ DoSignin \/ DoForgotPassword \/ DoResetPassword \/ DoMe
    \/ DoRegenerate \/ DoTrustedDevice \/ DoTick

SpecToken == Init /\ [][NextToken]_vars

(***************************************************************************)
(* SpecBackupRace: verifications of a backup code in flight together.      *)
(* A request is split at the awaits between its SELECT of the unused       *)
(* backup-code row and its commit of is_used.                              *)
(***************************************************************************)
\* A request that has passed authentication and whose primary check has
\* failed: it is about to select the backup-code row.
VerificationRequest(route, u, token, code) ==
    [route |-> route, user |-> u, token |-> token, code |-> code, pc |-> "read",
     row |-> 0, status |-> 0]

\* POST /users/2fa/verify up to the SELECT of the backup code.
StartVerify(token, code) ==
    /\ Len(procs) < MaxProcs
    /\ LET u == BearerUser(tokens, users, token, now)
       IN /\ u # 0
          /\ two_factor[u].exists /\ two_factor[u].is_enabled
          /\ ~(two_factor[u].method = "authenticator" /\ two_factor[u].secret_key = 0)
          /\ procs' = Append(procs, VerificationRequest("verify", u, token, code))
    /\ UNCHANGED <<now, devices, resp, nops, authvars>>

\* POST /auth/verify-2fa up to the SELECT of the backup code.
StartVerify2FALogin(token, code) ==
    /\ Len(procs) < MaxProcs
    /\ jwt_decode(tokens, token, now) /\ token.temp_2fa /\ token.sub # 0
    /\ EnabledTwoFactor(two_factor, token.sub)
    /\ ~(two_factor[token.sub].method = "authenticator"
         /\ two_factor[token.sub].secret_key = 0)
    /\ two_factor' = login_code_check(two_factor, backup_codes, token.sub, code,
                                      now).two_factor
    /\ procs' = Append(procs, VerificationRequest("verify-2fa", token.sub, token, code))
    /\ UNCHANGED <<now, devices, resp, nops, invitations, redis_client, users, backup_codes, sessions, tokens,
                   rand, http, accepted>>

\* The SELECT of the unused row with the hash of the code.
ReadBackupCode(p) ==
    /\ procs[p].pc = "read"
    /\ LET rows == UnusedBackupRows(backup_codes, procs[p].user, procs[p].code)
       IN IF rows = {}
          THEN /\ procs' = [procs EXCEPT ![p].pc = "done", ![p].status = 400]
               /\ http' = [NoHttp EXCEPT !.route = procs[p].route, !.status = 400,
                              !.detail = "Invalid verification code",
                              !.user = procs[p].user, !.bearer = procs[p].token,
                              !.code = procs[p].code]
          ELSE /\ procs' = [procs EXCEPT ![p].pc = "write",
                              ![p].row = (CHOOSE x \in rows : \A y \in rows : x.id <= y.id).id]
               /\ UNCHANGED http
    /\ UNCHANGED <<now, devices, resp, nops, invitations, redis_client, users, two_factor, backup_codes, sessions,
                   tokens, rand, accepted>>

\* backup_code.is_used = True; commit; and the rest of the handler.
WriteBackupCode(p) ==
    /\ procs[p].pc = "write"
    /\ procs' = [procs EXCEPT ![p].pc = "done", ![p].status = 200]
    /\ backup_codes' = {IF b.id = procs[p].row THEN [b EXCEPT !.is_used = TRUE] ELSE b :
                           b \in backup_codes}
    /\ accepted' = accepted \cup {procs[p].code}
    /\ IF procs[p].route = "verify-2fa"
       THEN CompleteLogin("verify-2fa", procs[p].user, 0,
                [NoHttp EXCEPT !.bearer = procs[p].token, !.code = procs[p].code])
       ELSE /\ http' = Ok("verify", procs[p].user, procs[p].token, procs[p].code)
            /\ UNCHANGED <<sessions, tokens, rand>>
    /\ UNCHANGED <<now, devices, resp, nops, invitations, redis_client, users, two_factor>>

\* The requests that set the race up run one at a time, before it.
BackupRaceSetup ==
    /\ procs = <<>>
    /\ UNCHANGED procs
    /\ (DoSignup \/ DoEnable \/ DoSignin)

BackupRaceStart ==
    \E token \in tokens, code \in KnownBackupCodes :
        StartVerify(token, code) \/ StartVerify2FALogin(token, code)

BackupRaceStep ==
    \E p \in 1..Len(procs) : ReadBackupCode(p) \/ WriteBackupCode(p)

NextBackupRace == BackupRaceSetup \/ BackupRaceStart \/ BackupRaceStep

SpecBackupRace == Init /\ [][NextBackupRace]_vars

(***************************************************************************)
(* SpecIssueRace: save_trusted_device calls in flight together, split at   *)
(* the awaits of _enforce_device_limit, _cleanup_expired_devices and the   *)
(* commit of the new row.                                                  *)
(***************************************************************************)
\* create_trusted_device with a token no other row or request holds; held
\* is the number of active devices of the user when the request arrives.
IssueRequest(u, req, days) ==
    [user |-> u, pc |-> "limit", victim |-> 0,
     held |-> Cardinality(ActiveDevices(devices, u)),
     row |-> [create_trusted_device(devices, u, req, days, now) EXCEPT
                 !.token_hash = hash_token(Len(devices) + Len(procs) + 1)]]

StartIssue(u, req, days) ==
    /\ Len(procs) < MaxProcs
    /\ procs' = Append(procs, IssueRequest(u, req, days))
    /\ UNCHANGED <<now, devices, resp, nops, authvars>>

\* _enforce_device_limit: the SELECT of the active devices and the choice of
\* the oldest one.
ReadDeviceLimit(p) ==
    /\ procs[p].pc = "limit"
    /\ \E victim \in EvictionChoices(devices, procs[p].user) :
          procs' = [procs EXCEPT ![p].victim = victim,
                                 ![p].pc = IF victim = 0 THEN "cleanup" ELSE "evict"]
    /\ UNCHANGED <<now, devices, resp, nops, authvars>>

\* _enforce_device_limit: the deactivation of the oldest device.
EvictOldest(p) ==
    /\ procs[p].pc = "evict"
    /\ devices' = deactivate_device(devices, procs[p].victim, now)
    /\ procs' = [procs EXCEPT ![p].pc = "cleanup"]
    /\ UNCHANGED <<now, resp, nops, authvars>>

\* _cleanup_expired_devices
CleanupExpired(p) ==
    /\ procs[p].pc = "cleanup"
    /\ devices' = cleanup_expired_devices(devices, procs[p].user, now)
    /\ procs' = [procs EXCEPT ![p].pc = "insert"]
    /\ UNCHANGED <<now, resp, nops, authvars>>

\* db.add(trusted_device); commit
InsertDevice(p) ==
    /\ procs[p].pc = "insert"
    /\ devices' = Append(devices, procs[p].row)
    /\ procs' = [procs EXCEPT ![p].pc = "done"]
    /\ UNCHANGED <<now, resp, nops, authvars>>

\* The issues that fill the table run one at a time, before the race.
IssueRaceSetup ==
    /\ procs = <<>>
    /\ \E req \in CapIssueRequests, days \in ExpirationDays :
          Issue(CapUser, req, days, max_devices_per_user, MaxShortLived, FALSE)
    /\ UNCHANGED <<nops, authvars>>

IssueRaceStart ==
    \E req \in CapIssueRequests : StartIssue(CapUser, req, default_expiration_days)

IssueRaceStep ==
    \E p \in 1..Len(procs) :
        ReadDeviceLimit(p) \/ EvictOldest(p) \/ CleanupExpired(p) \/ InsertDevice(p)

IssueRaceTick == procs = <<>> /\ TickDay /\ UNCHANGED <<nops, authvars>>

NextIssueRace == IssueRaceSetup \/ IssueRaceStart \/ IssueRaceStep \/ IssueRaceTick

SpecIssueRace == Init /\ [][NextIssueRace]_vars

(***************************************************************************)
(* Properties of the trusted-device service.                               *)
(***************************************************************************)
SHA256(x) == <<"sha256", x>>

VerifyStep == resp'.op = "verify"
ReturnedDevice == devices[resp'.device]

\* C3: verify returns a record only if a device of that user is active,
\* unexpired, has the digest of the presented token, the current fingerprint
\* hash, and the current country code unless either country code is "XX";
\* a token whose digest equals no stored digest yields none.
C3_VerifyOnlyIfAllMatch ==
    [][VerifyStep =>
        /\ resp'.device # 0 =>
              /\ resp'.device \in DeviceIds(devices)
              /\ ReturnedDevice.user_id = resp'.user
              /\ ReturnedDevice.is_active
              /\ ~(now > ReturnedDevice.expires_at)
              /\ ReturnedDevice.token_hash = SHA256(resp'.token)
              /\ ReturnedDevice.device_hash = resp'.info.device_hash
              /\ \/ ReturnedDevice.country_code = resp'.info.country_code
                 \/ ReturnedDevice.country_code = "XX"
                 \/ resp'.info.country_code = "XX"
        /\ (\A i \in DeviceIds(devices) : devices[i].token_hash # SHA256(resp'.token))
              => resp'.device = 0]_vars

\* A verify that passed on the "XX" sentinel of the current request.
C3_Witness ==
    /\ resp.op = "verify"
    /\ resp.device # 0
    /\ resp.info.country_code = "XX"
    /\ devices[resp.device].country_code = "US"
    /\ devices[resp.device].token_hash = SHA256(resp.token)

\* The device verify finds by user and token digest (0: none).
FoundByVerify ==
    LET found == {i \in DeviceIds(devices) :
                    /\ devices[i].user_id = resp'.user
                    /\ devices[i].token_hash = SHA256(resp'.token)
                    /\ devices[i].is_active}
    IN IF found = {} THEN 0 ELSE CHOOSE i \in found : TRUE

Deactivated(id, reason) ==
    /\ ~devices'[id].is_active
    /\ resp'.device = 0
    /\ \E k \in 1..Len(resp'.audit) :
          /\ resp'.audit[k].device_id = id
          /\ resp'.audit[k].reason = reason

InactiveStaysInactive ==
    \A i \in DeviceIds(devices) : ~devices[i].is_active =>
        /\ i \in DeviceIds(devices')
        /\ ~devices'[i].is_active
        /\ devices'[i].token_hash = devices[i].token_hash

InactiveTokenRejected ==
    VerifyStep =>
        ((\E i \in DeviceIds(devices) :
             devices[i].token_hash = SHA256(resp'.token) /\ ~devices[i].is_active)
         => resp'.device = 0)

\* C4 as stated: any difference of the country codes deactivates the device,
\* and the geographic reason is tagged geo_mismatch.
C4_AsStated ==
    [][/\ VerifyStep /\ FoundByVerify # 0 =>
            LET id == FoundByVerify
                d  == devices[id]
            IN (\/ now > d.expires_at
                \/ d.device_hash # resp'.info.device_hash
                \/ d.country_code # resp'.info.country_code)
               => \/ now > d.expires_at /\ Deactivated(id, "expired")
                  \/ d.device_hash # resp'.info.device_hash
                        /\ Deactivated(id, "fingerprint_mismatch")
                  \/ d.country_code # resp'.info.country_code
                        /\ Deactivated(id, "geo_mismatch")
       /\ InactiveStaysInactive
       /\ InactiveTokenRejected]_vars

\* C4 (amended): when verify finds a device by user and token digest that is
\* expired, or whose fingerprint differs, or whose country code differs from
\* the current one while neither is "XX", it deactivates the device, tags the
\* reason expired / fingerprint_mismatch / geographic_restriction and returns
\* none; an inactive device never becomes active again and every later
\* verify with its token returns none.
C4_MismatchDeactivates ==
    [][/\ VerifyStep /\ FoundByVerify # 0 =>
            LET id == FoundByVerify
                d  == devices[id]
                geo == /\ d.country_code # resp'.info.country_code
                       /\ d.country_code # "XX"
                       /\ resp'.info.country_code # "XX"
            IN (\/ now > d.expires_at
                \/ d.device_hash # resp'.info.device_hash
                \/ geo)
               => \/ now > d.expires_at /\ Deactivated(id, "expired")
                  \/ d.device_hash # resp'.info.device_hash
                        /\ Deactivated(id, "fingerprint_mismatch")
                  \/ geo /\ Deactivated(id, "geographic_restriction")
       /\ InactiveStaysInactive
       /\ InactiveTokenRejected]_vars

\* A verify from another country has just deactivated the device it found.
C4_Witness ==
    /\ resp.op = "verify"
    /\ resp.device = 0
    /\ Len(resp.audit) = 1
    /\ resp.audit[1].reason = "geographic_restriction"
    /\ ~devices[resp.audit[1].device_id].is_active
    /\ devices[resp.audit[1].device_id].token_hash = SHA256(resp.token)

\* C7: each user has at most 5 trusted devices with is_active = true.
C7_AtMostFiveActive ==
    \A u \in Users :
        Cardinality({i \in DeviceIds(devices) :
                        devices[i].user_id = u /\ devices[i].is_active}) <= 5

\* A sixth device was issued to a user and five are active.
C7_Witness ==
    /\ resp.op = "issue"
    /\ Cardinality({i \in DeviceIds(devices) : devices[i].user_id = resp.user}) >= 6
    /\ Cardinality({i \in DeviceIds(devices) :
                       devices[i].user_id = resp.user /\ devices[i].is_active}) = 5

ActiveOf(devs, u) == {i \in 1..Len(devs) : devs[i].user_id = u /\ devs[i].is_active}

IssueAtCap ==
    /\ resp'.op = "issue"
    /\ Cardinality(ActiveOf(devices, resp'.user)) = 5

IsLeastRecentlyUsed(v, u) ==
    /\ v \in ActiveOf(devices, u)
    /\ \A j \in ActiveOf(devices, u) : devices[v].last_used_at <= devices[j].last_used_at

\* C9 as stated: the sixth issue deactivates the least-recently-used active
\* device and no other, and exactly 5 devices are active afterwards.
C9_AsStated ==
    [][IssueAtCap =>
        LET u == resp'.user
        IN /\ \E v \in ActiveOf(devices, u) :
                /\ IsLeastRecentlyUsed(v, u)
                /\ ActiveOf(devices', u) = (ActiveOf(devices, u) \ {v}) \cup {Len(devices')}
           /\ Cardinality(ActiveOf(devices', u)) = 5]_vars

\* C9 (amended): the sixth issue deactivates the active device with the
\* smallest last_used_at and, besides it, only active devices of that user
\* whose expires_at is earlier than the current time; at most 5 devices are
\* active afterwards, and exactly 5 when none of the other four had expired.
C9_EvictsLeastRecentlyUsed ==
    [][IssueAtCap =>
        LET u == resp'.user
        IN /\ \E v \in ActiveOf(devices, u) :
                LET expired == {i \in ActiveOf(devices, u) \ {v} : devices[i].expires_at < now}
                IN /\ IsLeastRecentlyUsed(v, u)
                   /\ ActiveOf(devices', u) =
                        (ActiveOf(devices, u) \ ({v} \cup expired)) \cup {Len(devices')}
                   /\ expired = {} => Cardinality(ActiveOf(devices', u)) = 5
           /\ Cardinality(ActiveOf(devices', u)) <= 5
           /\ \A w \in Users \ {u} : ActiveOf(devices', w) = ActiveOf(devices, w)]_vars

\* A sixth issue has evicted a device although an older row, refreshed by a
\* verify, is still active.
C9_Witness ==
    /\ resp.op = "issue"
    /\ Cardinality(ActiveOf(devices, resp.user)) = 5
    /\ Len(resp.audit) = 2
    /\ resp.audit[1].reason = "device_limit_exceeded"
    /\ \E i \in ActiveOf(devices, resp.user) :
          /\ i < resp.audit[1].device_id
          /\ devices[i].last_used_at > devices[i].created_at

(***************************************************************************)
(* Properties of the login flow and of the second factor.                  *)
(***************************************************************************)
\* A device of user u that the presented cookie and request make trusted.
TrustedNow(u, cookie, info) ==
    \E i \in DeviceIds(devices) :
        /\ devices[i].user_id = u
        /\ devices[i].is_active
        /\ devices[i].token_hash = SHA256(cookie)
        /\ ~(now > devices[i].expires_at)
        /\ devices[i].device_hash = info.device_hash
        /\ \/ devices[i].country_code = info.country_code
           \/ devices[i].country_code = "XX"
           \/ info.country_code = "XX"

\* The code is the TOTP code of the secret of u for the current time step or
\* an adjacent one.
TOTPVerifies(u, code) ==
    /\ two_factor[u].method = "authenticator"
    /\ \E s \in {now - 1, now, now + 1} : code = <<"totp", two_factor[u].secret_key, s>>

\* The code is the stored, unexpired sms / email code of u.
TempCodeVerifies(u, code) ==
    /\ two_factor[u].method \in {"sms", "email"}
    /\ code # <<>>
    /\ two_factor[u].temp_code = code
    /\ now <= two_factor[u].temp_code_expires_at

\* The code is an unused backup code of u.
BackupCodeVerifies(u, code) ==
    \E b \in backup_codes :
        b.user_id = u /\ ~b.is_used /\ b.code_hash = <<"sha256", code>>

SecondFactorVerifies(u, code) ==
    TOTPVerifies(u, code) \/ TempCodeVerifies(u, code) \/ BackupCodeVerifies(u, code)

Enabled2FA(u) == two_factor[u].exists /\ two_factor[u].is_enabled

\* The step created a session for u or signed an access token for u.
LoggedIn(u) ==
    \/ \E s \in sessions' \ sessions : s.user_id = u
    \/ \E t \in tokens' \ tokens : t.sub = u /\ ~t.temp_2fa /\ ~t.reset

\* C1: for a user whose second factor is enabled, a request creates a
\* session or returns an access token only if it is a sign-in whose
\* trusted-device cookie verified or a verify-2fa whose code check succeeded;
\* a signin with the correct password and no valid trusted device returns
\* the second-factor challenge with a pending token and creates no session.
C1_NoSessionWithoutSecondFactor ==
    [][/\ \A u \in Users : Enabled2FA(u) /\ LoggedIn(u) =>
             \/ /\ http'.route \in {"signin", "google"}
                /\ http'.user = u
                /\ TrustedNow(u, http'.cookie, http'.info)
             \/ /\ http'.route = "verify-2fa"
                /\ http'.user = u
                /\ SecondFactorVerifies(u, http'.code)
       /\ \A login \in Logins, password \in Passwords, cookie \in 0..Len(devices),
             req \in LoginRequests :
             LET u == FindUser(users, login)
             IN (/\ http'.route = "signin"
                 /\ u # 0
                 /\ users[u].password_hash = <<"bcrypt", password>>
                 /\ Enabled2FA(u)
                 /\ ~TrustedNow(u, cookie, extract_device_info_from_request(req))
                 /\ signin(login, password, cookie, req))
                => /\ http'.status = 200
                   /\ http'.requires_2fa
                   /\ http'.minted.temp_2fa
                   /\ http'.minted.sub = u
                   /\ http'.minted \in tokens'
                   /\ sessions' = sessions
                   /\ ~LoggedIn(u)]_vars

\* A verify-2fa of a user with the second factor enabled has created a
\* session and returned the access token bound to it.
C1_Witness ==
    /\ http.route = "verify-2fa"
    /\ http.status = 200
    /\ Enabled2FA(http.user)
    /\ ~http.minted.temp_2fa
    /\ \E s \in sessions : s.user_id = http.user /\ s.token_jti = http.minted.jti

\* The supplied code verifies against the currently active method of u.
ActiveMethodVerifies(u, code) == TOTPVerifies(u, code) \/ TempCodeVerifies(u, code)

\* C5: disable clears is_enabled only after the supplied code verified
\* against the active method (TOTP for authenticator, the stored temp_code
\* for sms / email); a disable without a code or with a code that does not
\* verify leaves the profile enabled.
C5_DisableOnlyAfterVerification ==
    [][\A u \in Users : Enabled2FA(u) /\ ~Enabled2FA(u)' =>
          /\ http'.route = "disable"
          /\ http'.user = u
          /\ ActiveMethodVerifies(u, http'.code)]_vars

\* The routes that authenticate a bearer token with get_current_user_id.
BearerRoutes ==
    {"me", "enable", "verify", "disable", "backup-codes", "send-code", "resend-code",
     "send-setup-code", "verify-setup", "trust-device", "revoke-device",
     "revoke-all-devices"}

\* The token carries a token_version lower than the current one of its user.
Stale(token) ==
    /\ token.sub \in 1..Len(users)
    /\ token.token_version >= 0
    /\ token.token_version < users[token.sub].token_version

\* C6: token_version never decreases, a successful password reset increases
\* it, and no endpoint that authenticates a bearer token accepts a token
\* whose token_version is lower than the current one of its user.
C6_StaleTokensRejected ==
    [][/\ \A u \in 1..Len(users) : users'[u].token_version >= users[u].token_version
       /\ http'.route = "reset-password" /\ http'.status = 200 =>
             users'[http'.user].token_version > users[http'.user].token_version
       /\ http'.route \in BearerRoutes /\ http'.bearer \in tokens =>
             ~Stale(http'.bearer)]_vars

\* The step is a verification (verify-2fa or /users/2fa/verify) of a code of
\* the form of a backup code.
BackupVerification ==
    /\ http'.route \in {"verify-2fa", "verify"}
    /\ http'.code # <<>>
    /\ http'.code[1] = "backup"

\* C10: over requests that do not overlap, a backup code is accepted at most
\* once: a used flag is never cleared, a verification accepts a backup code
\* only if its row is unused and the code was never accepted before, and
\* sets the flag.
C10_BackupCodeAtMostOnce ==
    [][/\ \A b \in backup_codes : b.is_used =>
             \A c \in backup_codes' : c.id = b.id => c.is_used /\ c.code_hash = b.code_hash
       /\ BackupVerification /\ http'.status = 200 =>
             /\ http'.code \notin accepted
             /\ http'.code \in accepted'
             /\ \E b \in backup_codes :
                   /\ b.user_id = http'.user
                   /\ b.code_hash = <<"sha256", http'.code>>
                   /\ ~b.is_used
                   /\ [b EXCEPT !.is_used = TRUE] \in backup_codes'
       /\ BackupVerification /\ http'.code \in accepted => http'.status # 200]_vars

\* A backup code that was accepted before has been presented again and
\* rejected.
C10_Witness ==
    /\ http.route \in {"verify-2fa", "verify"}
    /\ http.status = 400
    /\ http.code \in accepted
    /\ \E b \in backup_codes : b.code_hash = <<"sha256", http.code>> /\ b.is_used

(***************************************************************************)
(* Properties of requests in flight together.                              *)
(***************************************************************************)
\* The requests that present the same backup code for the same user as p.
SameCode(p) ==
    {q \in 1..Len(procs) : procs[q].user = procs[p].user /\ procs[q].code = procs[p].code}

\* C2: when two or more verifications of one user present the same unused
\* backup code concurrently, exactly one of them succeeds and the others
\* fail with the invalid-verification-code error.
C2_ExactlyOneSucceeds ==
    \A p \in 1..Len(procs) :
        (/\ Cardinality(SameCode(p)) >= 2
         /\ \E b \in backup_codes :
               b.user_id = procs[p].user /\ b.code_hash = <<"sha256", procs[p].code>>
         /\ \A q \in SameCode(p) : procs[q].pc = "done")
        => /\ Cardinality({q \in SameCode(p) : procs[q].status = 200}) = 1
           /\ \A q \in SameCode(p) : procs[q].status \in {200, 400}

\* C8: when two or more issues for a user who holds 5 active trusted
\* devices run concurrently, the user has at most 5 active devices after all
\* of them have completed.
C8_AtMostFiveAfterConcurrentIssue ==
    (/\ Len(procs) >= 2
     /\ \A p \in 1..Len(procs) : procs[p].pc = "done" /\ procs[p].held = 5)
    => \A p \in 1..Len(procs) : Cardinality(ActiveOf(devices, procs[p].user)) <= 5

\* The step enables the second factor of u with method sms or email.
EnablesContactMethod(u) ==
    /\ ~Enabled2FA(u)
    /\ Enabled2FA(u)'
    /\ two_factor'[u].method \in {"sms", "email"}

\* C11: a profile becomes enabled with method sms or email only for a user
\* who completed a setup verification before; verify-setup succeeds only on
\* an existing profile row and rows are never deleted, so such a user has a
\* profile row when the enabling step starts.
C11_ContactMethodOnlyAfterSetupVerification ==
    [][\A u \in Users : EnablesContactMethod(u) => two_factor[u].exists]_vars

\* The step is a verification request of u, whose enabled method is sms or
\* email, that compared the supplied code with a stored temp_code.
ChecksStoredCode(u) ==
    /\ Enabled2FA(u)
    /\ two_factor[u].method \in {"sms", "email"}
    /\ two_factor[u].temp_code # NoCode
    /\ http'.route \in {"verify-2fa", "verify"}
    /\ http'.user = u
    /\ http'.code # NoCode

\* C12: for sms / email every check of a supplied code against the stored
\* temp_code, at login or in the settings, leaves temp_code and
\* temp_code_expires_at cleared whatever the outcome of the check.
C12_StoredCodeClearedAfterEveryCheck ==
    [][\A u \in Users : ChecksStoredCode(u) =>
          /\ two_factor'[u].temp_code = NoCode
          /\ two_factor'[u].temp_code_expires_at = 0]_vars

(***************************************************************************)
(* SpecExpiry: the lifetime of an sms / email code.  One user signs up and *)
(* enables sms or email; the clock advances by single steps and by the     *)
(* lifetime of a code, so that verifications happen before, at and after   *)
(* temp_code_expires_at.                                                   *)
(***************************************************************************)
CodeLifetime == TempCodeMinutes * StepsPerMinute

ExpirySignup ==
    users = <<>> /\ signup("alice", "alice@x", "pw1") /\ UNCHANGED nops

ExpiryEnable ==
    /\ \E token \in Bearers, method \in {"sms", "email"} :
          enable_two_factor(token, method, "555")
    /\ UNCHANGED nops

ExpirySignin ==
    Budget /\ \E req \in LoginRequests : signin("alice", "pw1", 0, req)

ExpiryVerify2FALogin ==
    Budget /\ \E token \in Bearers, code \in CodeInputs, req \in LoginRequests :
                 verify_2fa_login(token, code, FALSE, req)

ExpiryTick ==
    /\ \/ (now % CodeLifetime) < MaxSteps /\ TickStep
       \/ /\ now < MaxLifetimes * CodeLifetime
          /\ now' = now + CodeLifetime
          /\ resp' = NoResp
          /\ http' = NoHttp
          /\ UNCHANGED <<devices, procs, invitations, redis_client, users, two_factor, backup_codes, sessions,
                         tokens, rand, accepted>>
    /\ UNCHANGED nops

NextExpiry ==
    \/ ExpirySignup \/ ExpiryEnable \/ ExpirySignin \/ ExpiryVerify2FALogin
    \/ DoSendCode \/ DoSendLoginCode \/ DoVerify \/ ExpiryTick

SpecExpiry == Init /\ [][NextExpiry]_vars

\* The step is a verification request of u, whose enabled method is sms or
\* email, made while a temp_code is stored.
VerifiesWithStoredCode(u) ==
    /\ Enabled2FA(u)
    /\ two_factor[u].method \in {"sms", "email"}
    /\ two_factor[u].temp_code # NoCode
    /\ http'.route \in {"verify-2fa", "verify"}
    /\ http'.user = u
    /\ http'.code # NoCode

\* The stored code is accepted with the correct value strictly before its
\* expiry.
AcceptedBeforeExpiry(u) ==
    now < two_factor[u].temp_code_expires_at /\ http'.code = two_factor[u].temp_code
        => http'.status = 200

\* C13 as stated: accepted with the correct value strictly before the
\* expiry; after the expiry rejected whatever value is supplied, with an
\* error distinct from the invalid-code error.
C13_AsStated ==
    [][\A u \in Users : VerifiesWithStoredCode(u) =>
          /\ AcceptedBeforeExpiry(u)
          /\ now > two_factor[u].temp_code_expires_at =>
                /\ http'.status # 200
                /\ http'.detail # "Invalid verification code"]_vars

\* C13: a stored sms / email code is accepted with the correct value
\* strictly before its expiry; after the expiry the verification succeeds
\* only with an unused backup code of the user, and every other value,
\* the stored code included, is rejected with the same 400 "Invalid
\* verification code" as a wrong code.
C13_ExpiredCodeRejectedAsInvalid ==
    [][\A u \in Users : VerifiesWithStoredCode(u) =>
          /\ AcceptedBeforeExpiry(u)
          /\ now > two_factor[u].temp_code_expires_at =>
                /\ http'.status = 200 <=> BackupCodeVerifies(u, http'.code)
                /\ http'.status # 200 =>
                      /\ http'.status = 400
                      /\ http'.detail = "Invalid verification code"]_vars

\* An expired stored code was presented with its correct value and rejected.
C13_Witness ==
    /\ http.route \in {"verify-2fa", "verify"}
    /\ http.status = 400
    /\ http.user # 0
    /\ two_factor[http.user].method \in {"sms", "email"}
    /\ http.code = two_factor[http.user].temp_code
    /\ now > two_factor[http.user].temp_code_expires_at

(***************************************************************************)
(* SpecRemember: the remembered device from end to end.  One user signs up *)
(* and enables sms; sign-ins, login codes and verify-2fa follow, and the   *)
(* clock advances by single steps and by the lifetime of a trusted device. *)
(***************************************************************************)
DeviceLifetime == default_expiration_days * StepsPerDay

\* A browser in the US, the same browser family in France, another browser.
RememberRequests ==
    {[ua |-> "chrome-win/1",     ip |-> "8.8.8.8", geo |-> "ok"],
     [ua |-> "chrome-win/1+ext", ip |-> "2.2.2.2", geo |-> "ok"],
     [ua |-> "safari-ios/2",     ip |-> "8.8.8.8", geo |-> "ok"]}

RememberSignup ==
    users = <<>> /\ signup("alice", "alice@x", "pw1") /\ UNCHANGED nops

RememberEnable ==
    /\ \E token \in Bearers : enable_two_factor(token, "sms", "555")
    /\ UNCHANGED nops

RememberSignin ==
    Budget /\ \E password \in Passwords, cookie \in 0..Len(devices),
                 req \in RememberRequests : signin("alice", password, cookie, req)

RememberVerify2FALogin ==
    Budget /\ \E token \in Bearers, code \in DigitCodes, remember_device \in BOOLEAN,
                 req \in RememberRequests :
                 verify_2fa_login(token, code, remember_device, req)

RememberSendLoginCode ==
    Budget /\ \E token \in Bearers : send_login_verification_code(token, "sms")

RememberTick ==
    /\ \/ (now % DeviceLifetime) < MaxSteps /\ TickStep
       \/ /\ now < MaxWeeks * DeviceLifetime
          /\ now' = now + DeviceLifetime
          /\ resp' = NoResp
          /\ http' = NoHttp
          /\ UNCHANGED <<devices, procs, invitations, redis_client, users, two_factor, backup_codes, sessions,
                         tokens, rand, accepted>>
    /\ UNCHANGED nops

NextRemember ==
    \/ RememberSignup \/ RememberEnable \/ RememberSignin \/ RememberVerify2FALogin
    \/ RememberSendLoginCode \/ RememberTick

SpecRemember == Init /\ [][NextRemember]_vars

\* u has the second factor enabled with method sms.
SmsEnabled(u) == Enabled2FA(u) /\ two_factor[u].method = "sms"

\* The active, unexpired devices of u issued for this cookie whose
\* fingerprint and country are those of the request.
RememberedDevices(u, cookie, info) ==
    {i \in DeviceIds(devices) :
        /\ devices[i].user_id = u
        /\ devices[i].is_active
        /\ devices[i].token_hash = SHA256(cookie)
        /\ ~(now > devices[i].expires_at)
        /\ devices[i].device_hash = info.device_hash
        /\ devices[i].country_code = info.country_code}

\* C14: for a user with sms enabled, (1) a signin with the correct password
\* and no cookie returns the challenge with a pending token and no session;
\* (2) a verify-2fa with the stored code and remember_device returns an
\* access token and the token of a new device of this fingerprint and
\* country that expires 7 days later; (3) a later signin with the correct
\* password, that cookie, the same fingerprint and country before the
\* expiry of the device returns an access token and a session, no challenge.
C14_RememberedDeviceSkipsChallenge ==
    [][\A req \in RememberRequests :
         LET u == FindUser(users, "alice")
             info == extract_device_info_from_request(req)
         IN u # 0 /\ SmsEnabled(u) =>
            /\ http'.route = "signin" /\ signin("alice", "pw1", 0, req) =>
                  /\ http'.status = 200
                  /\ http'.requires_2fa
                  /\ http'.minted.temp_2fa
                  /\ http'.minted \in tokens'
                  /\ sessions' = sessions
            /\ \A token \in tokens :
                  (/\ http'.route = "verify-2fa"
                   /\ token.sub = u /\ token.temp_2fa /\ now < token.exp
                   /\ two_factor[u].temp_code # NoCode
                   /\ now < two_factor[u].temp_code_expires_at
                   /\ verify_2fa_login(token, two_factor[u].temp_code, TRUE, req))
                  => /\ http'.status = 200
                     /\ ~http'.minted.temp_2fa
                     /\ http'.minted \in tokens'
                     /\ http'.cookie # 0
                     /\ Len(devices') = Len(devices) + 1
                     /\ LET d == devices'[Len(devices')]
                        IN /\ d.user_id = u
                           /\ d.is_active
                           /\ d.token_hash = SHA256(http'.cookie)
                           /\ d.device_hash = info.device_hash
                           /\ d.country_code = info.country_code
                           /\ d.expires_at = now + 7 * StepsPerDay
            /\ \A cookie \in 1..Len(devices) :
                  (/\ http'.route = "signin"
                   /\ RememberedDevices(u, cookie, info) # {}
                   /\ signin("alice", "pw1", cookie, req))
                  => /\ http'.status = 200
                     /\ ~http'.requires_2fa
                     /\ ~http'.minted.temp_2fa
                     /\ http'.minted \in tokens'
                     /\ \E s \in sessions' \ sessions :
                           /\ s.user_id = u
                           /\ s.token_jti = http'.minted.jti
                           /\ s.trusted_device_id \in RememberedDevices(u, cookie, info)]_vars

\* A signin of the sms user with the cookie of a device remembered by an
\* earlier verify-2fa returned an access token and a session bound to that
\* device, without a challenge.
C14_Witness ==
    /\ http.route = "signin"
    /\ http.status = 200
    /\ http.cookie # 0
    /\ ~http.requires_2fa
    /\ ~http.minted.temp_2fa
    /\ SmsEnabled(http.user)
    /\ \E s \in sessions :
          /\ s.token_jti = http.minted.jti
          /\ s.trusted_device_id \in DeviceIds(devices)
          /\ devices[s.trusted_device_id].token_hash = SHA256(http.cookie)
          /\ devices[s.trusted_device_id].created_at < now

(***************************************************************************)
(* SpecRevoke: revocation seen from the login.  One user signs up and      *)
(* enables sms, trusts devices, revokes them and signs in with their       *)
(* cookies.                                                                *)
(***************************************************************************)
NextRevoke ==
    \/ RememberSignup \/ RememberEnable \/ DoTrustedDevice \/ RememberSignin \/ DoTick

SpecRevoke == Init /\ [][NextRevoke]_vars

\* The devices of u that were issued for this cookie.
DevicesOfCookie(devs, u, cookie) ==
    {i \in DevicesOf(devs, u) : devs[i].token_hash = SHA256(cookie)}

\* C15: a revoke-all of u leaves no device of u active, a device that is
\* not active never becomes active again, and a signin that presents the
\* cookie of devices that are not active gets none from verify and, with
\* the second factor enabled, the challenge instead of a session.
C15_RevokedTokensNotTrusted ==
    [][/\ \A u \in Users :
            http'.route = "revoke-all-devices" /\ http'.status = 200 /\ http'.user = u
            => /\ Len(devices') = Len(devices)
               /\ \A i \in DevicesOf(devices', u) : ~devices'[i].is_active
       /\ \A i \in DeviceIds(devices) :
            ~devices[i].is_active => ~devices'[i].is_active
       /\ \A u \in Users :
            (/\ http'.route = "signin"
             /\ http'.user = u
             /\ http'.cookie # 0
             /\ Enabled2FA(u)
             /\ \A i \in DevicesOfCookie(devices, u, http'.cookie) : ~devices[i].is_active)
            => /\ resp'.op = "verify"
               /\ resp'.device = 0
               /\ http'.requires_2fa
               /\ http'.minted.temp_2fa
               /\ sessions' = sessions]_vars

\* A signin presented the cookie of a device that a revoke-all deactivated
\* and was answered with the challenge.
C15_Witness ==
    /\ http.route = "signin"
    /\ http.requires_2fa
    /\ http.cookie # 0
    /\ resp.op = "verify"
    /\ resp.device = 0
    /\ \E i \in DevicesOfCookie(devices, http.user, http.cookie) :
          /\ ~devices[i].is_active
          /\ devices[i].device_hash = http.info.device_hash
          /\ devices[i].country_code = http.info.country_code
          /\ ~(now > devices[i].expires_at)

\* C16: a trusted-device verify whose geolocation lookup failed returns no
\* device.
C16_FailedLookupNotTrusted ==
    [][\A u \in Users, token \in 0..Len(devices), req \in Requests :
          (/\ VerifyStep
           /\ req.geo = "fail"
           /\ Verify(u, token, req, TRUE))
          => resp'.device = 0]_vars

\* The devices that are active in a and not active in b.
DeactivatedBetween(a, b) == {i \in DeviceIds(a) : a[i].is_active /\ ~b[i].is_active}

\* The same rows are active in a and in b.
SameActive(a, b) ==
    Len(a) = Len(b) /\ \A i \in DeviceIds(a) : a[i].is_active = b[i].is_active

\* Applying the revocation of the step once more changes no is_active.
RevokeIdempotent ==
    /\ resp'.op = "revoke" =>
          SameActive(devices',
                     revoke_trusted_device(devices', resp'.user, resp'.device, now)[2])
    /\ resp'.op = "revoke_all" =>
          LET again == revoke_all_trusted_devices(devices', resp'.user, now)
          IN SameActive(devices', again[2]) /\ again[1] = 0

C18_GenericInvalidCredentials ==
    [][\A login \in Logins, password \in Passwords, cookie \in 0..Len(devices),
          req \in LoginRequests :
          LET u == FindUser(users, login)
          IN (/\ http'.route = "signin"
              /\ u = 0 \/ users[u].password_hash # <<"bcrypt", password>>
              /\ signin(login, password, cookie, req))
             => /\ http'.status = 401
                /\ http'.detail = "Invalid credentials"
                /\ UNCHANGED <<users, two_factor, backup_codes, sessions, tokens,
                               devices>>]_vars

(***************************************************************************)
(* SpecReset: password reset while accounts are edited and the clock runs  *)
(* past the lifetime of a reset token.                                     *)
(***************************************************************************)
ResetLifetime == RESET_TOKEN_EXPIRE_MINUTES * StepsPerMinute

UpdateEmails == {None, "alice@x", "carol@x"}
UpdatePasswords == {None, "pw3"}

DoUpdateUser ==
    Budget /\ \E user_id \in Users, email \in UpdateEmails, password \in UpdatePasswords :
                 update_user(user_id, None, email, password)

ResetTick ==
    /\ \/ (now % ResetLifetime) < MaxSteps /\ TickStep
       \/ /\ now < MaxResetLifetimes * ResetLifetime
          /\ now' = now + ResetLifetime
          /\ resp' = NoResp
          /\ http' = NoHttp
          /\ UNCHANGED <<devices, procs, invitations, redis_client, users, two_factor, backup_codes, sessions,
                         tokens, rand, accepted>>
    /\ UNCHANGED nops

NextReset ==
    \/ DoSignup \/ DoForgotPassword \/ DoUpdateUser \/ DoResetPassword \/ ResetTick

SpecReset == Init /\ [][NextReset]_vars

\* The token is signed by this server, unexpired, carries the reset flag and
\* names the id and the e-mail address of a row of users.
ValidResetToken(token) ==
    /\ token \in tokens
    /\ now < token.exp
    /\ token.reset
    /\ \E i \in 1..Len(users) : i = token.sub /\ users[i].email = token.email

SameCredentials ==
    /\ Len(users') = Len(users)
    /\ \A i \in 1..Len(users) :
          /\ users'[i].password_hash = users[i].password_hash
          /\ users'[i].token_version = users[i].token_version

\* C19: reset-password changes a password_hash only when the presented token
\* is validly signed, unexpired, carries the reset flag and its user id and
\* e-mail address match an existing user; with any other token it answers
\* 400 and leaves password_hash and token_version of every user unchanged.
C19_ResetOnlyWithValidToken ==
    [][\A token \in Bearers :
          (http'.route = "reset-password" /\ reset_password(token, "pw2")) =>
              /\ ~SameCredentials => ValidResetToken(token)
              /\ ~ValidResetToken(token) => http'.status = 400 /\ SameCredentials]_vars

\* A reset succeeded, and after the lifetime of the token a later reset with
\* a signed reset token was rejected as expired.
C19_Witness ==
    /\ http.route = "reset-password"
    /\ http.status = 400
    /\ http.detail = "Reset token expired."
    /\ \E token \in tokens : token.reset /\ ~(now < token.exp)
    /\ \E i \in 1..Len(users) :
          users[i].password_hash = hash_password("pw2") /\ users[i].token_version = 1

(***************************************************************************)
(* SpecInvite: family invitations, the registrations made with them, and   *)
(* the clock running past the lifetime of an invitation.                   *)
(***************************************************************************)
InvitationLifetime == InvitationDays * StepsPerDay

InviteeLists == {<<"carol@x">>, <<"carol@x", "alice@x">>}
InviteTokens == 0..rand
InviteeNames == {"carol", "alice"}

DoInvite ==
    /\ Budget
    /\ \E invitees \in InviteeLists :
          /\ Len(invitations) + Len(invitees) <= MaxInvitations
          /\ invite(invitees)

DoAcceptInvite == Budget /\ \E token \in InviteTokens : accept_invite(token)

DoRegisterInvitee ==
    Budget /\ \E token \in InviteTokens, username \in InviteeNames :
                 register_invitee(token, username, "pw1")

InviteTick ==
    /\ \/ (now % InvitationLifetime) < MaxSteps /\ TickStep
       \/ /\ now < MaxInviteLifetimes * InvitationLifetime
          /\ now' = now + InvitationLifetime
          /\ resp' = NoResp
          /\ http' = NoHttp
          /\ UNCHANGED <<devices, procs, invitations, redis_client, users, two_factor, backup_codes,
                         sessions, tokens, rand, accepted>>
    /\ UNCHANGED nops

NextInvite ==
    \/ DoSignupOne \/ DoInvite \/ DoAcceptInvite \/ DoRegisterInvitee \/ DoUpdateUser
    \/ InviteTick

SpecInvite == Init /\ [][NextInvite]_vars

\* register-invitee has succeeded with the invitation.
Registered(i) == invitations[i].registered # {}

\* The request is an accept or a register-invitee made with the token.
UsesInviteToken(token) ==
    \/ accept_invite(token)
    \/ \E username \in InviteeNames : register_invitee(token, username, "pw1")

\* C20: an invitation token is usable only while its invitation is pending:
\* a register-invitee that succeeds with a token leaves the invitation
\* accepted, every later accept or register-invitee with that token fails
\* and changes nothing, and no invitation ever has more than one user
\* created from it.
C20_InvitationUsedAtMostOnce ==
    /\ [](\A i \in 1..Len(invitations) :
             /\ Cardinality(invitations[i].registered) <= 1
             /\ Registered(i) => invitations[i].status = "accepted")
    /\ [][\A i \in 1..Len(invitations) :
             /\ (UsesInviteToken(invitations[i].token) /\ http'.status = 200) =>
                    invitations[i].status = "pending"
             /\ (Registered(i) /\ UsesInviteToken(invitations[i].token)) =>
                    /\ http'.status = 404
                    /\ UNCHANGED <<users, invitations>>]_vars

\* An invitation a user registered with, and a later request with its token,
\* made within the lifetime of the invitation, that was refused.
C20_Witness ==
    \E i \in 1..Len(invitations) :
        /\ Registered(i)
        /\ invitations[i].registered \subseteq 1..Len(users)
        /\ http.route \in {"accept-invite", "register-invitee"}
        /\ http.invite_token = invitations[i].token
        /\ http.status = 404
        /\ ~(invitations[i].sent_at < now - InvitationLifetime)

\* The device was deactivated by the step for the reason given.
DeactivatedFor(i, reason) ==
    \E k \in 1..Len(resp'.audit) :
        resp'.audit[k] = AuditEvent("trusted_device_deactivated", i, reason)

\* C21: the cleanup of expired trusted devices, which runs when a device is
\* saved, deactivates every active device whose expires_at is earlier than
\* the current time and leaves every active device that has not expired
\* active (the device evicted for the device limit apart).
C21_CleanupDeactivatesEveryExpired ==
    [][resp'.op = "issue" =>
          \A i \in DeviceIds(devices) :
              devices[i].is_active =>
                  IF devices[i].expires_at < now
                  THEN ~devices'[i].is_active
                  ELSE devices'[i].is_active \/ DeactivatedFor(i, "device_limit_exceeded")]_vars

(***************************************************************************)
(* SpecTOTP: an authenticator secret and the codes of the time steps       *)
(* around the time of a verification.                                      *)
(***************************************************************************)
TotpRequest == [ua |-> "chrome-win/1", ip |-> "8.8.8.8", geo |-> "ok"]

\* The time steps, relative to the current one, whose codes are presented.
TotpOffsets == {-3, -2, -1, 0, 1, 2, 3}

TotpSignup == users = <<>> /\ signup("alice", "alice@x", "pw1") /\ UNCHANGED nops

TotpEnable ==
    /\ \E token \in Bearers : enable_two_factor(token, "authenticator", "")
    /\ UNCHANGED nops

TotpSignin == Budget /\ signin("alice", "pw1", 0, TotpRequest)

TotpVerify2FALogin ==
    Budget /\ \E token \in Bearers, u \in Users, d \in TotpOffsets :
                 verify_2fa_login(token, TOTPCode(two_factor[u].secret_key, now + d),
                                  FALSE, TotpRequest)

TotpVerify ==
    Budget /\ \E token \in Bearers, u \in Users, d \in TotpOffsets :
                 verify_two_factor(token, TOTPCode(two_factor[u].secret_key, now + d))

NextTOTP ==
    \/ TotpSignup \/ TotpEnable \/ TotpSignin \/ TotpVerify2FALogin \/ TotpVerify
    \/ DoTick

SpecTOTP == Init /\ [][NextTOTP]_vars

\* The user has the authenticator enabled with a secret.
AuthenticatorEnabled(u) ==
    /\ u \in 1..Len(users)
    /\ Enabled2FA(u)
    /\ two_factor[u].method = "authenticator"
    /\ two_factor[u].secret_key # 0

\* C22: for the secret of a user and the time of a verification, TOTP
\* verification accepts exactly the codes of the current 30-second time
\* step and of the steps immediately before and after it: the codes of
\* T-30s, T and T+30s are accepted, those of T-90s and T+90s (and of every
\* other step) are rejected, at /users/2fa/verify and at /auth/verify-2fa.
C22_TotpWindowOfOneStep ==
    [][\A u \in Users, d \in TotpOffsets, token \in Bearers :
          LET code == TOTPCode(two_factor[u].secret_key, now + d)
          IN /\ (/\ http'.route = "verify" /\ http'.bearer = token /\ http'.code = code
                 /\ AuthenticatorEnabled(u)
                 /\ BearerUser(tokens, users, token, now) = u
                 /\ verify_two_factor(token, code)) =>
                    (http'.status = 200 <=> d \in {-1, 0, 1})
             /\ (/\ http'.route = "verify-2fa" /\ http'.bearer = token
                 /\ http'.code = code
                 /\ AuthenticatorEnabled(u)
                 /\ jwt_decode(tokens, token, now) /\ token.temp_2fa /\ token.sub = u
                 /\ verify_2fa_login(token, code, FALSE, TotpRequest)) =>
                    /\ http'.status \in {200, 400}
                    /\ http'.status = 200 <=> d \in {-1, 0, 1}]_vars

\* A login was completed with the code of the time step after the current
\* one.
C22_Witness ==
    /\ http.route = "verify-2fa"
    /\ http.status = 200
    /\ AuthenticatorEnabled(http.user)
    /\ http.code = TOTPCode(two_factor[http.user].secret_key, now + 1)

\* C23: a pending-2FA token grants nothing but the completion of the
\* challenge: every route that authenticates a session bearer token answers
\* it with 401, so a request made with it never changes a 2FA profile, a
\* backup code or a trusted device.
C23_PendingTokenGrantsNothing ==
    [][(/\ http'.route \in BearerRoutes
        /\ http'.bearer \in tokens
        /\ http'.bearer.temp_2fa) =>
           /\ http'.status = 401
           /\ UNCHANGED <<two_factor, backup_codes, devices>>]_vars

\* C24: when signin issues a challenge for a user whose method is sms or
\* email, it stores a 6-digit code as the user's temp_code with an expiry 10
\* minutes later, and a verify-2fa carrying the stored code before that
\* expiry succeeds.
C24_SigninStoresLoginCode ==
    [][/\ (/\ http'.route = "signin"
           /\ http'.requires_2fa
           /\ two_factor[http'.user].method \in {"sms", "email"}) =>
              /\ IsSixDigits(two_factor'[http'.user].temp_code)
              /\ two_factor'[http'.user].temp_code_expires_at =
                     now + TempCodeMinutes * StepsPerMinute
       /\ (/\ http'.route = "verify-2fa"
           /\ http'.user # 0
           /\ two_factor[http'.user].method \in {"sms", "email"}
           /\ two_factor[http'.user].temp_code # NoCode
           /\ http'.code = two_factor[http'.user].temp_code
           /\ now < two_factor[http'.user].temp_code_expires_at) =>
              http'.status = 200]_vars

(***************************************************************************)
(* SpecSession: logins, the revocation of their sessions and the requests  *)
(* made with their tokens afterwards.                                      *)
(***************************************************************************)
SessionRequest == [ua |-> "chrome-win/1", ip |-> "8.8.8.8", geo |-> "ok"]

SessionSignin ==
    Budget /\ \E login \in Logins : signin(login, "pw1", 0, SessionRequest)

DoRevokeSession ==
    Budget /\ \E token \in Bearers, session_id \in 0..rand :
                 revoke_session(token, session_id)

DoRevokeAllSessions == Budget /\ \E token \in Bearers : revoke_all_sessions(token)

NextSession ==
    \/ DoSignup \/ SessionSignin \/ DoRevokeSession \/ DoRevokeAllSessions \/ DoMe
    \/ DoRegenerate \/ DoTick

SpecSession == Init /\ [][NextSession]_vars

\* The routes of app/routes/user_session.py.
SessionRoutes == {"revoke-session", "revoke-all-sessions"}

\* C25: a bearer token is bound through its jti to one row of user_sessions:
\* once that row has been deleted by revoke_session or revoke_all_sessions,
\* no route that authenticates a bearer token accepts the token.
C25_RevokedSessionTokenRejected ==
    [][(/\ http'.route \in BearerRoutes \cup SessionRoutes
        /\ http'.bearer \in tokens
        /\ http'.bearer.jti # 0) =>
           \E x \in sessions : x.token_jti = http'.bearer.jti]_vars

\* The tables an enable request can write stay as they are.
EnableChangesNothing == UNCHANGED <<two_factor, backup_codes, users, sessions, devices>>

\* C26: an enable request with method sms or email made while the profile of
\* the user holds an outstanding setup temp_code fails with an error and
\* changes nothing: the profile stays disabled with its method, phone number
\* and temp_code, and no backup code is added; an enable request for a
\* profile that is already enabled fails and changes nothing as well.
C26_EnableBlockedWhileCodeOutstanding ==
    [][\A token \in Bearers, method \in Methods, phone \in {"", "555"} :
          LET u == BearerUser(tokens, users, token, now)
          IN (/\ http'.route = "enable"
              /\ u \in 1..Len(users)
              /\ two_factor[u].exists
              /\ \/ two_factor[u].is_enabled
                 \/ method \in {"sms", "email"} /\ two_factor[u].temp_code # NoCode
              /\ enable_two_factor(token, method, phone)) =>
                 /\ http'.status = 400
                 /\ EnableChangesNothing]_vars

\* An enable request was refused because a setup code is outstanding, and
\* the profile is still disabled and holds the code.
C26_Witness ==
    /\ http.route = "enable"
    /\ http.status = 400
    /\ http.detail = "Please verify first"
    /\ \E u \in 1..Len(users) :
          /\ two_factor[u].exists
          /\ ~two_factor[u].is_enabled
          /\ two_factor[u].temp_code # NoCode
          /\ \A b \in backup_codes : b.user_id # u

(***************************************************************************)
(* SpecLoginCode: a user with sms or email as the method, the routes that  *)
(* send a login code and the verification of the code sent.                *)
(***************************************************************************)
LoginCodeRequest == [ua |-> "chrome-win/1", ip |-> "8.8.8.8", geo |-> "ok"]

LoginCodeSignup == users = <<>> /\ signup("alice", "alice@x", "pw1") /\ UNCHANGED nops

LoginCodeEnable ==
    /\ \E token \in Bearers, method \in {"sms", "email"} :
          enable_two_factor(token, method, "555")
    /\ UNCHANGED nops

LoginCodeSignin == Budget /\ signin("alice", "pw1", 0, LoginCodeRequest)

DoSendSmsCode == Budget /\ \E token \in Bearers : send_sms_code(token)

DoSendEmailCode == Budget /\ \E token \in Bearers : send_email_code(token)

LoginCodeVerify ==
    Budget /\ \E token \in Bearers, code \in DigitCodes :
                 verify_2fa_login(token, code, FALSE, LoginCodeRequest)

NextLoginCode ==
    \/ LoginCodeSignup \/ LoginCodeEnable \/ LoginCodeSignin \/ DoSendLoginCode
    \/ DoSendSmsCode \/ DoSendEmailCode \/ LoginCodeVerify \/ DoTick

SpecLoginCode == Init /\ [][NextLoginCode]_vars

\* The routes that send a login code to the holder of a temporary token.
LoginSendRoutes == {"send-login-code", "send-sms-code", "send-email-code"}

DisableRequest == [ua |-> "chrome-win/1", ip |-> "8.8.8.8", geo |-> "ok"]

DisableSignup ==
    /\ \/ Len(users) = 0 /\ signup("alice", "alice@x", "pw1")
       \/ Len(users) = 1 /\ signup("bob", "bob@x", "pw1")
    /\ UNCHANGED nops

DisableEnable ==
    /\ nops = 0
    /\ \E token \in Bearers : enable_two_factor(token, "authenticator", "")
    /\ UNCHANGED nops

DisableSignin ==
    Budget /\ \E login \in {"alice", "bob"} : signin(login, "pw1", 0, DisableRequest)

DisableVerify2FALogin ==
    Budget /\ \E token \in Bearers, code \in KnownBackupCodes, remember_device \in BOOLEAN :
                 verify_2fa_login(token, code, remember_device, DisableRequest)

DisableDisable ==
    Budget /\ \E token \in Bearers, code \in {NoCode, JunkCode} :
                 disable_two_factor(token, code)

NextDisable ==
    \/ DisableSignup \/ DisableEnable \/ DisableSignin \/ DisableVerify2FALogin
    \/ DisableDisable \/ DoTick

SpecDisable == Init /\ [][NextDisable]_vars

\* The backup-code rows a disable of u is to keep.
KeptByDisable(codes, u) == {b \in codes : b.user_id # u \/ b.is_used}

\* C28: a successful disable deletes every unused backup code of the user, so
\* that none exists afterwards, and leaves everything else unchanged: the
\* used backup codes of the user, the trusted devices and sessions, and all
\* rows of other users.
C28_DisableDeletesUnusedCodesOnly ==
    [][(http'.route = "disable" /\ http'.status = 200) =>
          LET u == http'.user
          IN /\ \A b \in backup_codes' : ~(b.user_id = u /\ ~b.is_used)
             /\ KeptByDisable(backup_codes', u) = KeptByDisable(backup_codes, u)
             /\ \A v \in Users \ {u} : two_factor'[v] = two_factor[v]
             /\ UNCHANGED <<devices, sessions, users>>]_vars

\* A user with a used backup code, unused ones, a trusted device and a
\* session has disabled the factor while the other user holds unused codes.
C28_Witness ==
    /\ http.route = "disable"
    /\ http.status = 200
    /\ \E b \in backup_codes : b.user_id = http.user /\ b.is_used
    /\ \E b \in backup_codes : b.user_id # http.user /\ ~b.is_used
    /\ \E i \in 1..Len(devices) : devices[i].user_id = http.user /\ devices[i].is_active
    /\ \E s \in sessions : s.user_id = http.user

\* C29: trusted-device tokens are scoped to their owner: a verify of user B
\* with the token of a device of another user A returns no device and
\* leaves the row of A's device as it was (still active, last_used_at
\* unchanged).
C29_TokenScopedToOwner ==
    [][VerifyStep =>
          \A i \in DeviceIds(devices) :
              (/\ devices[i].token_hash = SHA256(resp'.token)
               /\ devices[i].user_id # resp'.user) =>
                  /\ resp'.device = 0
                  /\ devices'[i] = devices[i]]_vars

\* A verify of another user presented the token of an active, unexpired
\* device from the browser and country the device was issued for.
C29_Witness ==
    /\ resp.op = "verify"
    /\ resp.device = 0
    /\ \E i \in DeviceIds(devices) :
          /\ devices[i].token_hash = SHA256(resp.token)
          /\ devices[i].user_id # resp.user
          /\ devices[i].is_active
          /\ ~(now > devices[i].expires_at)
          /\ devices[i].device_hash = resp.info.device_hash
          /\ devices[i].country_code = resp.info.country_code

\* C30: revoke_trusted_device called with the id of a device that does not
\* exist or that belongs to another user returns false and leaves the
\* is_active flag of every device unchanged.
C30_RevokeOfForeignIdChangesNothing ==
    [][(/\ resp'.op = "revoke"
        /\ \/ resp'.device \notin DeviceIds(devices)
           \/ devices[resp'.device].user_id # resp'.user) =>
              /\ resp'.count = 0
              /\ Len(devices') = Len(devices)
              /\ \A i \in DeviceIds(devices) :
                    devices'[i].is_active = devices[i].is_active]_vars

\* A revoke named the active device of another user and was answered false.
C30_Witness ==
    /\ resp.op = "revoke"
    /\ resp.count = 0
    /\ resp.device \in DeviceIds(devices)
    /\ devices[resp.device].user_id # resp.user
    /\ devices[resp.device].is_active

\* A revoke named an id no row has.
C30_WitnessNoRow ==
    /\ resp.op = "revoke"
    /\ resp.count = 0
    /\ resp.device \notin DeviceIds(devices)
    /\ \E i \in DeviceIds(devices) : devices[i].is_active

====
